---- MODULE Spec2Model ----
(***************************************************************************)
(* Model of script-magic's mapping synchronisation: the local mapping file *)
(* (~/.sm/mapping.json), the persisted gist id (~/.sm/gist_id.txt), the    *)
(* remote mapping gists, the MappingManager and setup_mapping.             *)
(*                                                                         *)
(* Python dicts are TLA+ functions from keys to strings.  The mapping file *)
(* and a remote gist are records [kind, scripts, last_synced]; kind tells  *)
(* a parsable mapping ("store") from a missing file/gist and from content  *)
(* that does not parse.  Local filesystem calls are taken to succeed; each *)
(* remote call succeeds or fails as its caller's input says.               *)
(***************************************************************************)
EXTENDS Integers, Sequences, FiniteSets, TLC

VARIABLES
    file,       \* content of ~/.sm/mapping.json
    idFile,     \* content of ~/.sm/gist_id.txt, or NoFile
    gist_id,    \* MappingManager.gist_id of the running process
    blobs,      \* the remote account: mapping gist id -> content
    now,        \* number of the last clock reading
    log,        \* file writes and remote calls made by the last operation
    pc,         \* "start" (before setup_mapping), "ready", "exited"
    githubOk,   \* second component of setup_mapping's result
    last,       \* the last operation: its arguments and what it returned
    expected,   \* the registry that the adds and removes since the last
                \* bootstrap or pull imply (name -> record)
    removed,    \* names removed by remove_script and not added since
    disk,       \* ~/.sm/mapping.json as text (followed in SpecStore only)
    io,         \* the _write_mapping in progress and the last _read_mapping
    race,       \* two invocations on two machines that push to one gist
                \* (followed in SpecRace only)
    run,        \* the cached script files and the last `sm run` (followed in
                \* SpecRun only)
    proc,       \* the module-level manager instance of the process and the
                \* setup_mapping calls it has made (followed in SpecBoot only)
    hdr,        \* a tag list, the script header generated from it and the
                \* tags extracted from that script (followed in SpecTags only)
    shared      \* two invocations on one machine, working on one mapping
                \* file (followed in SpecShared only)

vars ==
    <<file, idFile, gist_id, blobs, now, log, pc, githubOk, last, expected,
      removed, disk, io, race, run, proc,
                   hdr, shared>>

----------------------------------------------------------------------------
(* Bounds and input sets *)

MaxTime == 3

ScriptIds == {"s1", "s2"}
MirrorSeq == <<"m1", "m2">>
MirrorIds == {MirrorSeq[i] : i \in 1..Len(MirrorSeq)}
NameSeq == <<"a", "b">>
Names == {NameSeq[i] : i \in 1..Len(NameSeq)}

None == "None"
NoFile == "NoFile"

EmptyDict == [k \in {} |-> ""]

Metas == {EmptyDict, "description" :> "demo"}

TimeStr == <<"t1", "t2", "t3", "t4", "t5", "t6", "t7", "t8", "t9">>

isoformat(t) == TimeStr[t]

----------------------------------------------------------------------------
(* File and gist contents *)

Store(scripts, last_synced) ==
    [kind |-> "store", scripts |-> scripts, last_synced |-> last_synced]

EmptyStore == Store(EmptyDict, None)
MissingFile == [kind |-> "missing", scripts |-> EmptyDict, last_synced |-> None]
GarbageFile == [kind |-> "garbage", scripts |-> EmptyDict, last_synced |-> None]
AbsentBlob == [kind |-> "absent", scripts |-> EmptyDict, last_synced |-> None]
CorruptBlob == [kind |-> "corrupt", scripts |-> EmptyDict, last_synced |-> None]

\* content that deserializes to an object without a "scripts" key: {}
ShapelessBlob ==
    [kind |-> "shapeless", scripts |-> EmptyDict, last_synced |-> None]

\* {**base, **over}
MergeDict(base, over) == over @@ base

\* del d[k]
DelKey(d, k) == [x \in (DOMAIN d) \ {k} |-> d[x]]

\* d[k] = v
SetKey(d, k, v) == (k :> v) @@ d

----------------------------------------------------------------------------
(* The world an operation runs in, and results of calls *)

World ==
    [file |-> file, idFile |-> idFile, gist_id |-> gist_id, blobs |-> blobs,
     now |-> now, log |-> <<>>]

\* log entries: "write" (mapping file written), "discover", "pull", "push"
\* (a remote call starts), then "ok" or "fail" (how that call ended)
Logged(w, event) == [w EXCEPT !.log = Append(@, event)]

\* bool(x) of a gist id: None and the empty string are falsy
Truthy(id) == id # None /\ id # ""

\* os.path.exists of the two files
MappingFileExists(w) == w.file.kind # "missing"
GistIdFileExists(w) == w.idFile # NoFile

----------------------------------------------------------------------------
(* Remote mirror client: github_integration / github_gist_finder *)

\* the identifier the service gives the next gist it creates
FreshId(w) ==
    LET free == {i \in 1..Len(MirrorSeq) : w.blobs[MirrorSeq[i]].kind = "absent"}
    IN MirrorSeq[CHOOSE i \in free : \A j \in free : i <= j]

HasFreshId(w) == \E m \in MirrorIds : w.blobs[m].kind = "absent"

\* push(store, existingId) -> id
sync_mapping_file(w, mapping_data, id, ok) ==
    LET w1 == Logged(w, "push")
        failure == [w |-> Logged(w1, "fail"), raised |-> TRUE, id |-> None]
    IN IF ~ok THEN failure
       ELSE IF ~Truthy(id)
            THEN LET new == FreshId(w) IN
                 [w |-> Logged([w1 EXCEPT !.blobs[new] = mapping_data], "ok"),
                  raised |-> FALSE, id |-> new]
            ELSE IF w.blobs[id].kind = "absent" THEN failure
                 ELSE [w |-> Logged([w1 EXCEPT !.blobs[id] = mapping_data], "ok"),
                       raised |-> FALSE, id |-> id]

\* pull(id) -> MappingStore
get_mapping_from_gist(w, id, ok) ==
    LET w1 == Logged(w, "pull") IN
    IF ok /\ w.blobs[id].kind \in {"store", "shapeless"}
    THEN [w |-> Logged(w1, "ok"), raised |-> FALSE, data |-> w.blobs[id]]
    ELSE [w |-> Logged(w1, "fail"), raised |-> TRUE, data |-> EmptyStore]

\* discover() -> id | absent
select_best_mapping_gist(w, ok, found) ==
    LET w1 == Logged(w, "discover") IN
    IF ok THEN [w |-> Logged(w1, "ok"), raised |-> FALSE, id |-> found]
    ELSE [w |-> Logged(w1, "fail"), raised |-> TRUE, id |-> None]

----------------------------------------------------------------------------
(* MappingManager *)

_read_mapping(w) ==
    IF w.file.kind \in {"store", "shapeless"} THEN w.file ELSE EmptyStore

_write_mapping(w, mapping_data) ==
    Logged([w EXCEPT !.file = mapping_data], "write")

_ensure_mapping_file_exists(w) ==
    IF ~MappingFileExists(w) THEN _write_mapping(w, EmptyStore) ELSE w

_load_gist_id(w) ==
    IF GistIdFileExists(w) THEN [w EXCEPT !.gist_id = w.idFile] ELSE w

\* faulty variant: the id is kept in memory and never written to gist_id.txt
_save_gist_id_memory_only(w, id) == [w EXCEPT !.gist_id = id]

_save_gist_id(w, id) == [w EXCEPT !.idFile = id, !.gist_id = id]

\* MappingManager.__init__: a new manager over the files on disk
MappingManager(w) ==
    _load_gist_id(_ensure_mapping_file_exists([w EXCEPT !.gist_id = None]))

\* faulty variant: last_synced is stamped and written before the push
_sync_to_github_stamps_first(w, pushOk) ==
    LET mapping_data == _read_mapping(w)
        t == w.now + 1
        w1 == _write_mapping([w EXCEPT !.now = t],
                  [mapping_data EXCEPT !.last_synced = isoformat(t)])
        r == sync_mapping_file(w1, mapping_data, w.gist_id, pushOk)
    IN IF r.raised THEN [w |-> r.w, raised |-> TRUE]
       ELSE [w |-> IF ~Truthy(w.gist_id) THEN _save_gist_id(r.w, r.id) ELSE r.w,
             raised |-> FALSE]

\* faulty variant: the time of the push is written into every record
_sync_to_github_stamps_records(w, pushOk) ==
    LET mapping_data == _read_mapping(w)
        r == sync_mapping_file(w, mapping_data, w.gist_id, pushOk)
    IN IF r.raised THEN [w |-> r.w, raised |-> TRUE]
       ELSE LET w2 == IF ~Truthy(w.gist_id) THEN _save_gist_id(r.w, r.id) ELSE r.w
                t == w2.now + 1
                w3 == [w2 EXCEPT !.now = t]
                stamped == [n \in DOMAIN mapping_data.scripts |->
                               SetKey(mapping_data.scripts[n], "created_at",
                                      isoformat(t))]
            IN [w |-> _write_mapping(w3, Store(stamped, isoformat(t))),
                raised |-> FALSE]

\* faulty variant: the records that the gist already holds go before the
\* local ones
_sync_to_github_adopts_remote(w, pushOk) ==
    LET local == _read_mapping(w)
        held == IF Truthy(w.gist_id) /\ w.blobs[w.gist_id].kind = "store"
                THEN w.blobs[w.gist_id].scripts ELSE EmptyDict
        mapping_data == [local EXCEPT !.scripts = MergeDict(local.scripts, held)]
        r == sync_mapping_file(w, mapping_data, w.gist_id, pushOk)
    IN IF r.raised THEN [w |-> r.w, raised |-> TRUE]
       ELSE LET w2 == IF ~Truthy(w.gist_id) THEN _save_gist_id(r.w, r.id) ELSE r.w
                t == w2.now + 1
                w3 == [w2 EXCEPT !.now = t]
            IN [w |-> _write_mapping(w3, [mapping_data EXCEPT
                                            !.last_synced = isoformat(t)]),
                raised |-> FALSE]

\* faulty variant: every push creates a gist and the manager keeps its id
_sync_to_github_creates_each_time(w, pushOk) ==
    LET mapping_data == _read_mapping(w)
        r == sync_mapping_file(w, mapping_data, None, pushOk)
    IN IF r.raised THEN [w |-> r.w, raised |-> TRUE]
       ELSE LET w2 == _save_gist_id(r.w, r.id)
                t == w2.now + 1
                w3 == [w2 EXCEPT !.now = t]
            IN [w |-> _write_mapping(w3, [mapping_data EXCEPT
                                            !.last_synced = isoformat(t)]),
                raised |-> FALSE]

_sync_to_github(w, pushOk) ==
    LET mapping_data == _read_mapping(w)
        r == sync_mapping_file(w, mapping_data, w.gist_id, pushOk)
    IN IF r.raised THEN [w |-> r.w, raised |-> TRUE]
       ELSE LET w2 == IF ~Truthy(w.gist_id) THEN _save_gist_id(r.w, r.id) ELSE r.w
                t == w2.now + 1
                w3 == [w2 EXCEPT !.now = t]
            IN [w |-> _write_mapping(w3, [mapping_data EXCEPT
                                            !.last_synced = isoformat(t)]),
                raised |-> FALSE]

\* sync_mapping() -> bool; "except Exception" lets nothing out
sync_mapping(w, pushOk) ==
    LET r == _sync_to_github(w, pushOk)
    IN [w |-> r.w, ret |-> ~r.raised, raised |-> FALSE]

\* faulty variant: the mapping file is written whatever the pull gave
_sync_from_github_writes_on_failure(w, pullOk) ==
    IF ~Truthy(w.gist_id) THEN [w |-> w, ret |-> FALSE, raised |-> FALSE]
    ELSE LET r == get_mapping_from_gist(w, w.gist_id, pullOk)
         IN [w |-> _write_mapping(r.w, r.data), ret |-> ~r.raised,
             raised |-> FALSE]

\* faulty variant: the pulled scripts are merged into the local ones
_sync_from_github_merges(w, pullOk) ==
    IF ~Truthy(w.gist_id) THEN [w |-> w, ret |-> FALSE, raised |-> FALSE]
    ELSE LET r == get_mapping_from_gist(w, w.gist_id, pullOk)
         IN IF r.raised THEN [w |-> r.w, ret |-> FALSE, raised |-> FALSE]
            ELSE [w |-> _write_mapping(r.w,
                          [r.data EXCEPT !.scripts =
                              MergeDict(_read_mapping(w).scripts, @)]),
                  ret |-> TRUE, raised |-> FALSE]

\* _sync_from_github() -> bool
_sync_from_github(w, pullOk) ==
    IF ~Truthy(w.gist_id) THEN [w |-> w, ret |-> FALSE, raised |-> FALSE]
    ELSE LET r == get_mapping_from_gist(w, w.gist_id, pullOk)
         IN IF r.raised THEN [w |-> r.w, ret |-> FALSE, raised |-> FALSE]
            ELSE [w |-> _write_mapping(r.w, r.data), ret |-> TRUE,
                  raised |-> FALSE]

\* faulty variant: the metadata is left out of the entry
script_entry_without_metadata(id, created_at, metadata) ==
    ("gist_id" :> id) @@ ("created_at" :> created_at)

script_entry(id, created_at, metadata) ==
    MergeDict(("gist_id" :> id) @@ ("created_at" :> created_at), metadata)

\* faulty variant: a name that is already there keeps its old record
add_script_keeps_existing(w, script_name, id, metadata, pushOk) ==
    LET mapping_data == _read_mapping(w)
        t == w.now + 1
        entry == script_entry(id, isoformat(t), metadata)
        w1 == _write_mapping([w EXCEPT !.now = t],
                  [mapping_data EXCEPT !.scripts =
                      IF script_name \in DOMAIN @ THEN @
                      ELSE SetKey(@, script_name, entry)])
        r == sync_mapping(w1, pushOk)
    IN [w |-> r.w, raised |-> FALSE]

\* faulty variant: the push comes first and the entry is written only after
\* it succeeded
add_script_sync_first(w, script_name, id, metadata, pushOk) ==
    LET r == sync_mapping(w, pushOk)
        mapping_data == _read_mapping(r.w)
        t == r.w.now + 1
        entry == script_entry(id, isoformat(t), metadata)
    IN IF ~r.ret THEN [w |-> r.w, raised |-> FALSE]
       ELSE [w |-> _write_mapping([r.w EXCEPT !.now = t],
                      [mapping_data EXCEPT
                          !.scripts = SetKey(@, script_name, entry)]),
             raised |-> FALSE]

\* add_script(script_name, gist_id, metadata, sync=True); returns None.
\* An exception of the automatic sync is logged and dropped.
add_script(w, script_name, id, metadata, pushOk) ==
    LET mapping_data == _read_mapping(w)
        t == w.now + 1
        entry == script_entry(id, isoformat(t), metadata)
        w1 == _write_mapping([w EXCEPT !.now = t],
                  [mapping_data EXCEPT !.scripts = SetKey(@, script_name, entry)])
        r == sync_mapping(w1, pushOk)
    IN IF mapping_data.kind = "shapeless" THEN [w |-> w, raised |-> TRUE]
       ELSE [w |-> r.w, raised |-> FALSE]

\* faulty variant: the whole scripts mapping is dropped
remove_script_clears(w, script_name, pushOk) ==
    LET mapping == _read_mapping(w) IN
    IF script_name \notin DOMAIN mapping.scripts
    THEN [w |-> w, ret |-> FALSE, raised |-> FALSE]
    ELSE LET w1 == _write_mapping(w, [mapping EXCEPT !.scripts = EmptyDict])
             r == sync_mapping(w1, pushOk)
         IN [w |-> r.w, ret |-> TRUE, raised |-> FALSE]

\* faulty variant: the push is made before the mapping file is written
remove_script_push_first(w, script_name, pushOk) ==
    LET mapping == _read_mapping(w) IN
    IF script_name \notin DOMAIN mapping.scripts
    THEN [w |-> w, ret |-> FALSE, raised |-> FALSE]
    ELSE LET r == sync_mapping(w, pushOk)
             after == _read_mapping(r.w)
         IN [w |-> _write_mapping(r.w,
                       [after EXCEPT !.scripts = DelKey(@, script_name)]),
             ret |-> TRUE, raised |-> FALSE]

\* remove_script(script_name, sync=True) -> bool
remove_script(w, script_name, pushOk) ==
    LET mapping == _read_mapping(w) IN
    IF script_name \notin DOMAIN mapping.scripts
    THEN [w |-> w, ret |-> FALSE, raised |-> FALSE]
    ELSE LET w1 == _write_mapping(w,
                       [mapping EXCEPT !.scripts = DelKey(@, script_name)])
             r == sync_mapping(w1, pushOk)
         IN [w |-> r.w, ret |-> TRUE, raised |-> FALSE]

\* lookup_script(script_name) -> dict | None
lookup_script(w, script_name) ==
    LET scripts == _read_mapping(w).scripts
        present == script_name \in DOMAIN scripts
        script_data == IF present THEN scripts[script_name] ELSE EmptyDict
    IN IF present /\ DOMAIN script_data # {}
       THEN [found |-> TRUE, rec |-> script_data]
       ELSE [found |-> FALSE, rec |-> EmptyDict]

\* the loop of list_scripts over scripts.items(), keys taken in NameSeq order
RECURSIVE ListFrom(_, _)
ListFrom(scripts, i) ==
    IF i > Len(NameSeq) THEN <<>>
    ELSE LET name == NameSeq[i]
             rest == ListFrom(scripts, i + 1)
         IN IF name \in DOMAIN scripts
            THEN <<MergeDict("name" :> name, scripts[name])>> \o rest
            ELSE rest

\* list_scripts() -> list of dicts
list_scripts(w) == ListFrom(_read_mapping(w).scripts, 1)

RECURSIVE FirstNamed(_, _)
FirstNamed(scripts, script_name) ==
    IF scripts = <<>> THEN [found |-> FALSE, rec |-> EmptyDict]
    ELSE IF Head(scripts)["name"] = script_name
         THEN [found |-> TRUE, rec |-> Head(scripts)]
         ELSE FirstNamed(Tail(scripts), script_name)

\* get_script_info(script_name) -> dict | None
get_script_info(w, script_name) == FirstNamed(list_scripts(w), script_name)

----------------------------------------------------------------------------
(* mapping.json as text: json.dump, json.load and the file they work on *)

\* The text of the file is a sequence of tokens [t, v]: "{" and "}", "key"
\* with the key, "str" with the string, "null", and "bytes" for bytes that
\* are not UTF-8 text (a character cut in the middle).
Tok(t, v) == [t |-> t, v |-> v]

\* the order in which the keys of a script's dict are written
KeySeq == <<"gist_id", "created_at", "description">>

\* a string with a character outside ASCII (ensure_ascii=False writes it as
\* several bytes)
NonAscii == {"d&eacute;mo"}

\* json.dump of a value: None is written as null
EncVal(v) == IF v = None THEN Tok("null", "") ELSE Tok("str", v)

\* json.load of a value
DecVal(tok) == IF tok.t = "null" THEN None ELSE tok.v

\* the members of the flat dict d
RECURSIVE EncDict(_, _)
EncDict(d, i) ==
    IF i > Len(KeySeq) THEN <<>>
    ELSE LET k == KeySeq[i]
         IN (IF k \in DOMAIN d THEN <<Tok("key", k), EncVal(d[k])>> ELSE <<>>)
            \o EncDict(d, i + 1)

\* the members of the "scripts" dict
RECURSIVE EncScripts(_, _)
EncScripts(scripts, i) ==
    IF i > Len(NameSeq) THEN <<>>
    ELSE LET name == NameSeq[i]
         IN (IF name \in DOMAIN scripts
             THEN <<Tok("key", name), Tok("{", "")>>
                  \o EncDict(scripts[name], 1) \o <<Tok("}", "")>>
             ELSE <<>>)
            \o EncScripts(scripts, i + 1)

\* faulty variant: last_synced is always written as null
json_dump_null_last_synced(mapping_data) ==
    <<Tok("{", ""), Tok("key", "scripts"), Tok("{", "")>>
    \o EncScripts(mapping_data.scripts, 1)
    \o <<Tok("}", ""), Tok("key", "last_synced"), Tok("null", ""), Tok("}", "")>>

\* json.dump(mapping_data, f, indent=2, ensure_ascii=False)
json_dump(mapping_data) ==
    <<Tok("{", ""), Tok("key", "scripts"), Tok("{", "")>>
    \o EncScripts(mapping_data.scripts, 1)
    \o <<Tok("}", ""), Tok("key", "last_synced"),
         EncVal(mapping_data.last_synced), Tok("}", "")>>

ParseFail == [ok |-> FALSE, next |-> 0, val |-> EmptyDict]

\* the members of a flat dict from position i up to its closing brace
RECURSIVE ParseDict(_, _, _)
ParseDict(ts, i, acc) ==
    IF i > Len(ts) THEN ParseFail
    ELSE IF ts[i].t = "}" THEN [ok |-> TRUE, next |-> i + 1, val |-> acc]
    ELSE IF ts[i].t = "key" /\ i + 1 <= Len(ts) /\ ts[i + 1].t \in {"str", "null"}
    THEN ParseDict(ts, i + 2, SetKey(acc, ts[i].v, DecVal(ts[i + 1])))
    ELSE ParseFail

\* the members of the "scripts" dict from position i up to its closing brace
RECURSIVE ParseScripts(_, _, _)
ParseScripts(ts, i, acc) ==
    IF i > Len(ts) THEN ParseFail
    ELSE IF ts[i].t = "}" THEN [ok |-> TRUE, next |-> i + 1, val |-> acc]
    ELSE IF ts[i].t = "key" /\ i + 1 <= Len(ts) /\ ts[i + 1].t = "{"
    THEN LET r == ParseDict(ts, i + 2, EmptyDict)
         IN IF r.ok THEN ParseScripts(ts, r.next, SetKey(acc, ts[i].v, r.val))
            ELSE ParseFail
    ELSE ParseFail

\* json.load(f) of a mapping document; ok is FALSE on JSONDecodeError
json_load(ts) ==
    IF Len(ts) >= 3 /\ ts[1].t = "{" /\ ts[2] = Tok("key", "scripts")
       /\ ts[3].t = "{"
    THEN LET s == ParseScripts(ts, 4, EmptyDict)
         IN IF /\ s.ok
               /\ s.next + 2 = Len(ts)
               /\ ts[s.next] = Tok("key", "last_synced")
               /\ ts[s.next + 1].t \in {"str", "null"}
               /\ ts[s.next + 2].t = "}"
            THEN [ok |-> TRUE, val |-> Store(s.val, DecVal(ts[s.next + 1]))]
            ELSE [ok |-> FALSE, val |-> EmptyStore]
    ELSE [ok |-> FALSE, val |-> EmptyStore]

\* the file: whether it exists, and its text
NoDisk == [exists |-> FALSE, text |-> <<>>]
OnDisk(text) == [exists |-> TRUE, text |-> text]

UndecodableFile ==
    [kind |-> "undecodable", scripts |-> EmptyDict, last_synced |-> None]

\* what open(mapping_file, 'r', encoding='utf-8') and json.load make of the
\* file: FileNotFoundError, UnicodeDecodeError, JSONDecodeError or a mapping
FileOf(d) ==
    IF ~d.exists THEN MissingFile
    ELSE IF \E i \in 1..Len(d.text) : d.text[i].t = "bytes" THEN UndecodableFile
    ELSE LET r == json_load(d.text)
         IN IF r.ok THEN r.val ELSE GarbageFile

\* _read_mapping lets out every exception other than FileNotFoundError and
\* JSONDecodeError
_read_mapping_raises(w) == w.file.kind = "undecodable"

----------------------------------------------------------------------------
(* setup_mapping: the bootstrap *)

\* what input() gives at the prompt: an answer, Ctrl-C, or end of input
Choices == {"y", "n", "interrupt", "eof"}

Done(w, ok) == [w |-> w, ok |-> ok, raised |-> "none"]

\* faulty variant: after a pull the local mapping is pushed as well
SetupReconcile_pulls_then_pushes(w, choice, pullOk, pushOk) ==
    IF choice = "interrupt"
    THEN [w |-> w, ok |-> FALSE, raised |-> "KeyboardInterrupt"]
    ELSE IF choice = "eof" THEN Done(w, FALSE)
    ELSE IF choice = "y"
    THEN LET r == _sync_from_github(w, pullOk) IN
         Done(sync_mapping(r.w, pushOk).w, TRUE)
    ELSE LET r == sync_mapping(w, pushOk) IN Done(r.w, ~r.raised)

\* faulty variant: the interrupt is caught like any other exception
SetupReconcile_swallows_interrupt(w, choice, pullOk, pushOk) ==
    IF choice \in {"interrupt", "eof"} THEN Done(w, FALSE)
    ELSE IF choice = "y"
    THEN LET r == _sync_from_github(w, pullOk) IN Done(r.w, ~r.raised)
    ELSE LET r == sync_mapping(w, pushOk) IN Done(r.w, ~r.raised)

\* the discovered gist id has been saved: pull or push
SetupReconcile(w, choice, pullOk, pushOk) ==
    IF MappingFileExists(w)
    THEN IF choice = "interrupt"
         THEN [w |-> w, ok |-> FALSE, raised |-> "KeyboardInterrupt"]
         ELSE IF choice = "eof" THEN Done(w, FALSE)
         ELSE IF choice = "y"
         THEN LET r == _sync_from_github(w, pullOk) IN Done(r.w, ~r.raised)
         ELSE LET r == sync_mapping(w, pushOk) IN Done(r.w, ~r.raised)
    ELSE LET r == _sync_from_github(w, pullOk) IN Done(r.w, ~r.raised)

\* faulty variant: no early return when both files are there
setup_mapping_always_discovers(w, discOk, found, choice, pullOk, pushOk) ==
    LET w1 == MappingManager(w)
        d == select_best_mapping_gist(w1, discOk, found)
    IN IF d.raised THEN Done(d.w, FALSE)
       ELSE IF Truthy(d.id)
       THEN SetupReconcile([d.w EXCEPT !.idFile = d.id, !.gist_id = d.id],
                           choice, pullOk, pushOk)
       ELSE LET r == sync_mapping(_ensure_mapping_file_exists(d.w), pushOk)
            IN Done(r.w, ~r.raised)

\* faulty variant: with nothing discovered the first push is left to a later
\* sync
setup_mapping_defers_first_push(w, discOk, found, choice, pullOk, pushOk) ==
    LET w1 == MappingManager(w) IN
    IF MappingFileExists(w1) /\ GistIdFileExists(w1) THEN Done(w1, TRUE)
    ELSE IF ~GistIdFileExists(w1)
    THEN LET d == select_best_mapping_gist(w1, discOk, found) IN
         IF d.raised THEN Done(d.w, FALSE)
         ELSE IF Truthy(d.id)
         THEN SetupReconcile([d.w EXCEPT !.idFile = d.id, !.gist_id = d.id],
                             choice, pullOk, pushOk)
         ELSE Done(_ensure_mapping_file_exists(d.w), TRUE)
    ELSE Done(w1, FALSE)

\* setup_mapping() -> (mapping_manager, github_integration_success)
setup_mapping(w, discOk, found, choice, pullOk, pushOk) ==
    LET w1 == MappingManager(w) IN
    IF MappingFileExists(w1) /\ GistIdFileExists(w1) THEN Done(w1, TRUE)
    ELSE IF ~GistIdFileExists(w1)
    THEN LET d == select_best_mapping_gist(w1, discOk, found) IN
         IF d.raised THEN Done(d.w, FALSE)
         ELSE IF Truthy(d.id)
         THEN SetupReconcile([d.w EXCEPT !.idFile = d.id, !.gist_id = d.id],
                             choice, pullOk, pushOk)
         ELSE LET r == sync_mapping(_ensure_mapping_file_exists(d.w), pushOk)
              IN Done(r.w, ~r.raised)
    ELSE Done(w1, FALSE)

----------------------------------------------------------------------------
(* run.py: the run command *)

\* faulty variant: a cached file is used even when refresh is asked for
run_lookup_script_never_refreshes(w, cache, script_name, refresh, downloadOk) ==
    LET script_info == lookup_script(w, script_name)
        failed == [raised |-> TRUE, cache |-> cache, fetched |-> None]
    IN IF ~script_info.found THEN failed
       ELSE IF "gist_id" \notin DOMAIN script_info.rec THEN failed
       ELSE IF ~Truthy(script_info.rec["gist_id"]) THEN failed
       ELSE LET id == script_info.rec["gist_id"]
            IN IF cache[script_name] = NoFile
               THEN IF downloadOk
                    THEN [raised |-> FALSE,
                          cache |-> [cache EXCEPT ![script_name] = id],
                          fetched |-> id]
                    ELSE [failed EXCEPT !.fetched = id]
               ELSE [raised |-> FALSE, cache |-> cache, fetched |-> None]

\* run.lookup_script(script_name, refresh) -> (script_path, gist_id), or
\* click.ClickException; fetched is the gist that download_script_from_gist
\* was called with
run_lookup_script(w, cache, script_name, refresh, downloadOk) ==
    LET script_info == lookup_script(w, script_name)
        failed == [raised |-> TRUE, cache |-> cache, fetched |-> None]
    IN IF ~script_info.found THEN failed
       ELSE IF "gist_id" \notin DOMAIN script_info.rec THEN failed
       ELSE IF ~Truthy(script_info.rec["gist_id"]) THEN failed
       ELSE LET id == script_info.rec["gist_id"]
            IN IF refresh \/ cache[script_name] = NoFile
               THEN IF downloadOk
                    THEN [raised |-> FALSE,
                          cache |-> [cache EXCEPT ![script_name] = id],
                          fetched |-> id]
                    ELSE [failed EXCEPT !.fetched = id]
               ELSE [raised |-> FALSE, cache |-> cache, fetched |-> None]

\* faulty variant: the exception of the lookup is logged and the command
\* returns
run_cli_ignores_failure(w, cache, script_name, refresh, dry_run, downloadOk, execOk) ==
    LET l == run_lookup_script(w, cache, script_name, refresh, downloadOk)
    IN IF l.raised
       THEN [cache |-> l.cache, fetched |-> l.fetched, executed |-> FALSE,
             exit |-> 0]
       ELSE IF dry_run
       THEN [cache |-> l.cache, fetched |-> l.fetched, executed |-> FALSE,
             exit |-> 0]
       ELSE [cache |-> l.cache, fetched |-> l.fetched, executed |-> TRUE,
             exit |-> IF execOk THEN 0 ELSE 1]

\* run.cli: sys.exit(1) on any exception, status 0 otherwise; execOk tells
\* whether the execution of the script raised nothing
run_cli(w, cache, script_name, refresh, dry_run, downloadOk, execOk) ==
    LET l == run_lookup_script(w, cache, script_name, refresh, downloadOk)
    IN IF l.raised
       THEN [cache |-> l.cache, fetched |-> l.fetched, executed |-> FALSE,
             exit |-> 1]
       ELSE IF dry_run
       THEN [cache |-> l.cache, fetched |-> l.fetched, executed |-> FALSE,
             exit |-> 0]
       ELSE [cache |-> l.cache, fetched |-> l.fetched, executed |-> TRUE,
             exit |-> IF execOk THEN 0 ELSE 1]

\* the status the process exits with when setup_mapping lets `raised` out:
\* sys.exit(1) on KeyboardInterrupt
ExitStatus(raised) == IF raised = "KeyboardInterrupt" THEN 1 ELSE 0

----------------------------------------------------------------------------
(* State machine: one process after another over the same files and account *)

\* last: the operation (op), its arguments (name, id, meta), what it returned
\* (ret, or found/rec, or list), the exception it let out (raised), the
\* records it replaced or dropped (before) and the manager's gist id when it
\* started (gid)
NoOp ==
    [op |-> "none", name |-> "", id |-> "", meta |-> EmptyDict,
     ret |-> FALSE, raised |-> "none", found |-> FALSE, rec |-> EmptyDict,
     list |-> <<>>, before |-> EmptyDict, gid |-> None]

\* the records of pre that post no longer holds as they were
Replaced(pre, post) ==
    LET gone == {n \in DOMAIN pre.scripts :
                    n \notin DOMAIN post.scripts \/ post.scripts[n] # pre.scripts[n]}
    IN [n \in gone |-> pre.scripts[n]]

Raised(r) == IF r.raised THEN "Exception" ELSE "none"

\* the records on disk and in the account before the first invocation
OldA == script_entry("s1", isoformat(1), "description" :> "demo")
OldB == script_entry("s2", isoformat(1), EmptyDict)

InitFiles ==
    {MissingFile, GarbageFile, EmptyStore, Store("a" :> OldA, None)}

InitBlobs == {CorruptBlob, Store("b" :> OldB, None)}

\* run: cache tells, for each script name, the gist whose content
\* ~/.sm/scripts/<name>.py holds (NoFile when there is no such file); the
\* other fields are the options of the last `sm run`, the gist it downloaded
\* from (fetched), whether it executed the script and its exit status
NoRun ==
    [cache |-> [n \in Names |-> NoFile], refresh |-> FALSE, dry_run |-> FALSE,
     downloadOk |-> FALSE, execOk |-> FALSE, fetched |-> None,
     executed |-> FALSE, exit |-> 0]

\* proc: _mapping_manager_instance names the MappingManager object held by
\* the module ("m<k>" is the one created by the k-th setup_mapping call of
\* the process), bootstraps counts the setup_mapping calls of the process and
\* returned collects what get_mapping_manager has returned
NoProc == [_mapping_manager_instance |-> None, bootstraps |-> 0, returned |-> {}]

\* hdr: no tags chosen, nothing generated or extracted yet
NoHdr == [pc |-> "none", tags |-> <<>>, script |-> <<>>, out |-> <<>>]

ManagerOf(k) == IF k = 1 THEN "m1" ELSE "m2"

\* the invocations and, of each, where it is in sync_mapping (pc), the mapping
\* file of its machine (file), the mapping_data it has read (data) and last
\* pushed (sent) and what its last sync_mapping returned (ret); winner is the
\* invocation whose push was the last to complete
Procs == {"p1", "p2"}

Idle(f) ==
    [pc |-> "idle", file |-> f, data |-> EmptyStore, sent |-> EmptyStore,
     ret |-> FALSE]

NoRace == [inv |-> [p \in Procs |-> Idle(EmptyStore)], winner |-> None]

\* shared: of each invocation, the statement it has reached (pc), the
\* mapping_data it holds, the operation it runs and the name it was given;
\* added collects the names of the add_script calls that have returned,
\* dropped the names that a remove_script has deleted from the file
IdleInv ==
    [pc |-> "idle", mapping_data |-> EmptyStore, op |-> "none", name |-> ""]

NoShared == [inv |-> [p \in Procs |-> IdleInv], added |-> {}, dropped |-> {}]

\* io: pc is "writing" between the open and the close of _write_mapping;
\* data is the mapping being written or last written and prev the file before
\* that write; status tells what became of the last write ("written",
\* "crashed") or of the file since ("damaged"); op is the last step, read and
\* raised what the last _read_mapping returned and whether it raised
IdleIo ==
    [pc |-> "idle", data |-> EmptyStore, prev |-> MissingFile,
     status |-> "none", op |-> "none", read |-> EmptyStore, raised |-> FALSE]

Init ==
    /\ file \in InitFiles
    /\ idFile \in {NoFile, MirrorSeq[1]}
    /\ \E b \in InitBlobs \cup {AbsentBlob} :
          /\ idFile # NoFile => b.kind # "absent"
          /\ blobs = [m \in MirrorIds |-> IF m = MirrorSeq[1] THEN b ELSE AbsentBlob]
    /\ gist_id = None
    /\ now = 1
    /\ log = <<>>
    /\ pc = "start"
    /\ githubOk = FALSE
    /\ last = NoOp
    /\ expected = EmptyDict
    /\ removed = {}
    /\ disk = NoDisk
    /\ io = IdleIo
    /\ race = NoRace
    /\ run = NoRun
    /\ proc = NoProc
    /\ hdr = NoHdr
    /\ shared = NoShared

Commit(w) ==
    /\ w.now <= MaxTime
    /\ file' = w.file
    /\ idFile' = w.idFile
    /\ gist_id' = w.gist_id
    /\ blobs' = w.blobs
    /\ now' = w.now
    /\ log' = w.log
    /\ UNCHANGED <<disk, io, race, run, proc,
                   hdr, shared>>

\* sm(): the CLI group runs setup_mapping when the process starts
Setup(discOk, found, choice, pullOk, pushOk) ==
    /\ pc = "start"
    /\ HasFreshId(World)
    /\ found # None => blobs[found].kind # "absent"
    /\ LET r == setup_mapping(World, discOk, found, choice, pullOk, pushOk) IN
       /\ Commit(r.w)
       /\ pc' = IF r.raised = "none" THEN "ready" ELSE "exited"
       /\ githubOk' = r.ok
       /\ last' = [NoOp EXCEPT !.op = "setup", !.ret = r.ok, !.raised = r.raised,
                               !.id = found, !.name = choice, !.gid = idFile]
       /\ expected' = _read_mapping(r.w).scripts
    /\ UNCHANGED removed

AddScript(script_name, id, metadata, pushOk) ==
    /\ pc = "ready"
    /\ HasFreshId(World)
    /\ LET r == add_script(World, script_name, id, metadata, pushOk) IN
       /\ Commit(r.w)
       /\ last' = [NoOp EXCEPT !.op = "add", !.name = script_name, !.id = id,
                               !.meta = metadata,
                               !.raised = Raised(r), !.gid = gist_id,
                               !.before = Replaced(_read_mapping(World),
                                                   _read_mapping(r.w))]
    /\ expected' = SetKey(expected, script_name,
                          script_entry(id, isoformat(now + 1), metadata))
    /\ removed' = removed \ {script_name}
    /\ UNCHANGED <<pc, githubOk>>

RemoveScript(script_name, pushOk) ==
    /\ pc = "ready"
    /\ HasFreshId(World)
    /\ LET r == remove_script(World, script_name, pushOk) IN
       /\ Commit(r.w)
       /\ last' = [NoOp EXCEPT !.op = "remove", !.name = script_name,
                               !.ret = r.ret,
                               !.raised = Raised(r), !.gid = gist_id,
                               !.before = Replaced(_read_mapping(World),
                                                   _read_mapping(r.w))]
       /\ removed' = IF r.ret THEN removed \cup {script_name} ELSE removed
    /\ expected' = DelKey(expected, script_name)
    /\ UNCHANGED <<pc, githubOk>>

SyncMapping(pushOk) ==
    /\ pc = "ready"
    /\ HasFreshId(World)
    /\ LET r == sync_mapping(World, pushOk) IN
       /\ Commit(r.w)
       /\ last' = [NoOp EXCEPT !.op = "sync", !.ret = r.ret,
                               !.raised = Raised(r), !.gid = gist_id,
                               !.before = Replaced(_read_mapping(World),
                                                   _read_mapping(r.w))]
    /\ UNCHANGED <<pc, githubOk, expected, removed>>

SyncFromRemote(pullOk) ==
    /\ pc = "ready"
    /\ LET r == _sync_from_github(World, pullOk) IN
       /\ Commit(r.w)
       /\ last' = [NoOp EXCEPT !.op = "pull", !.ret = r.ret,
                               !.raised = Raised(r), !.gid = gist_id,
                               !.before = Replaced(_read_mapping(World),
                                                   _read_mapping(r.w))]
       /\ expected' = IF r.ret THEN _read_mapping(r.w).scripts ELSE expected
    /\ UNCHANGED <<pc, githubOk, removed>>

\* faulty variant: the mapping is pulled from the gist before the lookup
LookupScript_pulls_first(script_name) ==
    /\ pc = "ready"
    /\ LET p == _sync_from_github(World, TRUE)
           r == lookup_script(p.w, script_name)
       IN /\ Commit(p.w)
          /\ last' = [NoOp EXCEPT !.op = "lookup", !.name = script_name,
                                  !.found = r.found, !.rec = r.rec]
    /\ UNCHANGED <<pc, githubOk, expected, removed>>

LookupScript(script_name) ==
    /\ pc = "ready"
    /\ LET r == lookup_script(World, script_name) IN
       last' = [NoOp EXCEPT !.op = "lookup", !.name = script_name,
                            !.found = r.found, !.rec = r.rec]
    /\ log' = <<>>
    /\ UNCHANGED <<file, idFile, gist_id, blobs, now, pc, githubOk, expected,
                   removed, disk, io, race, run, proc,
                   hdr, shared>>

ListScripts ==
    /\ pc = "ready"
    /\ last' = [NoOp EXCEPT !.op = "list", !.list = list_scripts(World)]
    /\ log' = <<>>
    /\ UNCHANGED <<file, idFile, gist_id, blobs, now, pc, githubOk, expected,
                   removed, disk, io, race, run, proc,
                   hdr, shared>>

GetScriptInfo(script_name) ==
    /\ pc = "ready"
    /\ LET r == get_script_info(World, script_name) IN
       last' = [NoOp EXCEPT !.op = "info", !.name = script_name,
                            !.found = r.found, !.rec = r.rec]
    /\ log' = <<>>
    /\ UNCHANGED <<file, idFile, gist_id, blobs, now, pc, githubOk, expected,
                   removed, disk, io, race, run, proc,
                   hdr, shared>>

\* the process ends; the next invocation starts with the files it left
Restart ==
    /\ pc # "start"
    /\ pc' = "start"
    /\ gist_id' = None
    /\ githubOk' = FALSE
    /\ last' = NoOp
    /\ log' = <<>>
    /\ UNCHANGED <<file, idFile, blobs, now, expected, removed, disk, io, race, run, proc,
                   hdr, shared>>

Next ==
    \/ \E discOk \in BOOLEAN, found \in MirrorIds \cup {None}, choice \in Choices,
          pullOk \in BOOLEAN, pushOk \in BOOLEAN :
          Setup(discOk, found, choice, pullOk, pushOk)
    \/ \E n \in Names, id \in ScriptIds, m \in Metas, pushOk \in BOOLEAN :
          AddScript(n, id, m, pushOk)
    \/ \E n \in Names, pushOk \in BOOLEAN : RemoveScript(n, pushOk)
    \/ \E pushOk \in BOOLEAN : SyncMapping(pushOk)
    \/ \E pullOk \in BOOLEAN : SyncFromRemote(pullOk)
    \/ \E n \in Names : LookupScript(n)
    \/ ListScripts
    \/ \E n \in Names : GetScriptInfo(n)
    \/ Restart

Spec == Init /\ [][Next]_vars

\* the same program when every push to the remote fails
NextPushFails ==
    \/ \E discOk \in BOOLEAN, found \in MirrorIds \cup {None}, choice \in Choices,
          pullOk \in BOOLEAN : Setup(discOk, found, choice, pullOk, FALSE)
    \/ \E n \in Names, id \in ScriptIds, m \in Metas : AddScript(n, id, m, FALSE)
    \/ \E n \in Names : RemoveScript(n, FALSE)
    \/ SyncMapping(FALSE)
    \/ \E n \in Names : LookupScript(n)
    \/ ListScripts
    \/ Restart

SpecPushFails == Init /\ [][NextPushFails]_vars

----------------------------------------------------------------------------
(* The local store alone: _write_mapping step by step, crashes, reads *)

Accented == script_entry("s2", isoformat(2), "description" :> "d&eacute;mo")

\* mappings with 0, 1 and 2 scripts, with and without metadata and last_synced
StoreSamples ==
    {EmptyStore,
     Store("a" :> OldA, None),
     Store("b" :> Accented, isoformat(2)),
     Store(("a" :> OldA) @@ ("b" :> OldB), isoformat(1))}

InitStore ==
    /\ disk \in {NoDisk} \cup {OnDisk(json_dump(st)) : st \in StoreSamples}
    /\ file = FileOf(disk)
    /\ io = IdleIo
    /\ race = NoRace
    /\ run = NoRun
    /\ proc = NoProc
    /\ hdr = NoHdr
    /\ shared = NoShared
    /\ idFile = NoFile
    /\ blobs = [m \in MirrorIds |-> AbsentBlob]
    /\ gist_id = None
    /\ now = 1
    /\ log = <<>>
    /\ pc = "ready"
    /\ githubOk = FALSE
    /\ last = NoOp
    /\ expected = EmptyDict
    /\ removed = {}

\* a step on the file that is no call of the registry
StoreFrame ==
    /\ last' = NoOp
    /\ UNCHANGED <<idFile, gist_id, blobs, now, log, pc, githubOk, expected,
                   removed, race, run, proc,
                   hdr, shared>>

\* _write_mapping: open(self.mapping_file, 'w') truncates the file
WriteOpen(mapping_data) ==
    /\ io.pc = "idle"
    /\ disk' = OnDisk(<<>>)
    /\ file' = FileOf(disk')
    /\ io' = [io EXCEPT !.pc = "writing", !.data = mapping_data, !.prev = file,
                        !.status = "none", !.op = "open"]
    /\ StoreFrame

\* _write_mapping: json.dump writes the next piece of the text
WriteDump ==
    /\ io.pc = "writing"
    /\ Len(disk.text) < Len(json_dump(io.data))
    /\ disk' = OnDisk(Append(disk.text, json_dump(io.data)[Len(disk.text) + 1]))
    /\ file' = FileOf(disk')
    /\ io' = [io EXCEPT !.op = "dump"]
    /\ StoreFrame

\* _write_mapping: the with block closes the file
WriteClose ==
    /\ io.pc = "writing"
    /\ disk.text = json_dump(io.data)
    /\ io' = [io EXCEPT !.pc = "idle", !.status = "written", !.op = "close"]
    /\ UNCHANGED <<disk, file>>
    /\ StoreFrame

\* the process dies inside _write_mapping; the file keeps what had reached
\* it, which may end inside a character that takes several bytes
Crash ==
    /\ io.pc = "writing"
    /\ \E cut \in BOOLEAN :
          LET text == json_dump(io.data)
              at == Len(disk.text) + 1
          IN /\ cut => at <= Len(text) /\ text[at].v \in NonAscii
             /\ disk' = IF cut THEN OnDisk(Append(disk.text, Tok("bytes", "")))
                        ELSE disk
    /\ file' = FileOf(disk')
    /\ io' = [io EXCEPT !.pc = "idle", !.status = "crashed", !.op = "crash"]
    /\ StoreFrame

\* the file is deleted, or overwritten with text that is not JSON, outside
\* the program
DeleteFile ==
    /\ io.pc = "idle"
    /\ disk' = NoDisk
    /\ file' = FileOf(disk')
    /\ io' = [io EXCEPT !.status = "damaged", !.op = "delete"]
    /\ StoreFrame

ScribbleFile ==
    /\ io.pc = "idle"
    /\ disk' = OnDisk(<<Tok("str", "not a mapping")>>)
    /\ file' = FileOf(disk')
    /\ io' = [io EXCEPT !.status = "damaged", !.op = "scribble"]
    /\ StoreFrame

\* _read_mapping()
ReadMapping ==
    /\ io.pc = "idle"
    /\ io' = [io EXCEPT !.op = "read", !.read = _read_mapping(World),
                        !.raised = _read_mapping_raises(World)]
    /\ UNCHANGED <<disk, file>>
    /\ StoreFrame

NextStore ==
    \/ \E st \in StoreSamples : WriteOpen(st)
    \/ WriteDump
    \/ WriteClose
    \/ Crash
    \/ DeleteFile
    \/ ScribbleFile
    \/ ReadMapping
    \/ \E n \in Names : io.pc = "idle" /\ LookupScript(n)
    \/ io.pc = "idle" /\ ListScripts

SpecStore == InitStore /\ [][NextStore]_vars

----------------------------------------------------------------------------
(* The program when metadata may hold a key of the entry itself *)

\* metadata = {"gist_id": ...}: **metadata puts it over the entry's gist_id
MetasAll == Metas \cup {"gist_id" :> "s2"}

NextMeta ==
    \/ \E discOk \in BOOLEAN, found \in MirrorIds \cup {None}, choice \in Choices,
          pullOk \in BOOLEAN, pushOk \in BOOLEAN :
          Setup(discOk, found, choice, pullOk, pushOk)
    \/ \E n \in Names, m \in MetasAll, pushOk \in BOOLEAN :
          AddScript(n, "s1", m, pushOk)
    \/ \E n \in Names, pushOk \in BOOLEAN : RemoveScript(n, pushOk)
    \/ \E pushOk \in BOOLEAN : SyncMapping(pushOk)
    \/ \E pullOk \in BOOLEAN : SyncFromRemote(pullOk)
    \/ \E n \in Names : LookupScript(n)
    \/ Restart

SpecMeta == Init /\ [][NextMeta]_vars

----------------------------------------------------------------------------
(* The program when metadata may hold the key "name" *)

\* metadata = {"name": ...}: list_scripts builds {"name": name, **data}
MetasNamed == Metas \cup {"name" :> "b"}

NextInfo ==
    \/ \E discOk \in BOOLEAN, found \in MirrorIds \cup {None}, choice \in Choices,
          pullOk \in BOOLEAN, pushOk \in BOOLEAN :
          Setup(discOk, found, choice, pullOk, pushOk)
    \/ \E n \in Names, m \in MetasNamed, pushOk \in BOOLEAN :
          AddScript(n, "s1", m, pushOk)
    \/ \E n \in Names, pushOk \in BOOLEAN : RemoveScript(n, pushOk)
    \/ \E n \in Names : LookupScript(n)
    \/ ListScripts
    \/ \E n \in Names : GetScriptInfo(n)
    \/ Restart

SpecInfo == Init /\ [][NextInfo]_vars

----------------------------------------------------------------------------
(* Two invocations, each on its own machine, that push to the same gist *)

RaceFiles == {EmptyStore, Store("a" :> OldA, None), Store("b" :> OldB, None)}

InitRace ==
    /\ race \in [inv : [Procs -> {Idle(f) : f \in RaceFiles}], winner : {None}]
    /\ idFile = MirrorSeq[1]
    /\ gist_id = MirrorSeq[1]
    /\ blobs = [m \in MirrorIds |->
                  IF m = MirrorSeq[1] THEN EmptyStore ELSE AbsentBlob]
    /\ file = EmptyStore
    /\ now = 1
    /\ log = <<>>
    /\ pc = "ready"
    /\ githubOk = TRUE
    /\ last = NoOp
    /\ expected = EmptyDict
    /\ removed = {}
    /\ disk = NoDisk
    /\ io = IdleIo
    /\ run = NoRun
    /\ proc = NoProc
    /\ hdr = NoHdr
    /\ shared = NoShared

\* the world of invocation p: its machine's mapping file, the shared gist
WorldOf(p) == [World EXCEPT !.file = race.inv[p].file]

RaceFrame ==
    UNCHANGED <<file, idFile, gist_id, log, pc, githubOk, last, expected,
                removed, disk, io, run, proc, hdr, shared>>

\* _sync_to_github: mapping_data = self._read_mapping()
SyncRead(p) ==
    /\ race.inv[p].pc = "idle"
    /\ race' = [race EXCEPT !.inv[p].pc = "read",
                            !.inv[p].data = _read_mapping(WorldOf(p))]
    /\ UNCHANGED <<blobs, now>>
    /\ RaceFrame

\* faulty variant: the push adds the scripts to those the gist holds
SyncPush_merges(p, pushOk) ==
    /\ race.inv[p].pc = "read"
    /\ LET data == race.inv[p].data
           held == blobs[gist_id].scripts
           r == sync_mapping_file(WorldOf(p),
                    [data EXCEPT !.scripts = MergeDict(held, data.scripts)],
                    gist_id, pushOk)
       IN IF r.raised
          THEN /\ race' = [race EXCEPT !.inv[p].pc = "idle",
                                       !.inv[p].ret = FALSE]
               /\ UNCHANGED blobs
          ELSE /\ race' = [race EXCEPT !.inv[p].pc = "pushed",
                                       !.inv[p].sent = data,
                                       !.winner = p]
               /\ blobs' = r.w.blobs
    /\ UNCHANGED now
    /\ RaceFrame

\* _sync_to_github: sync_mapping_file(mapping_data, self.gist_id); when it
\* raises, sync_mapping returns False
SyncPush(p, pushOk) ==
    /\ race.inv[p].pc = "read"
    /\ LET data == race.inv[p].data
           r == sync_mapping_file(WorldOf(p), data, gist_id, pushOk)
       IN IF r.raised
          THEN /\ race' = [race EXCEPT !.inv[p].pc = "idle",
                                       !.inv[p].ret = FALSE]
               /\ UNCHANGED blobs
          ELSE /\ race' = [race EXCEPT !.inv[p].pc = "pushed",
                                       !.inv[p].sent = data,
                                       !.winner = p]
               /\ blobs' = r.w.blobs
    /\ UNCHANGED now
    /\ RaceFrame

\* _sync_to_github: last_synced is set and the mapping written; sync_mapping
\* returns True
SyncStamp(p) ==
    /\ race.inv[p].pc = "pushed"
    /\ now < MaxTime
    /\ now' = now + 1
    /\ race' = [race EXCEPT !.inv[p].pc = "idle",
                            !.inv[p].ret = TRUE,
                            !.inv[p].file =
                                [race.inv[p].data EXCEPT
                                    !.last_synced = isoformat(now + 1)]]
    /\ UNCHANGED blobs
    /\ RaceFrame

NextRace ==
    \/ \E p \in Procs : SyncRead(p)
    \/ \E p \in Procs, pushOk \in BOOLEAN : SyncPush(p, pushOk)
    \/ \E p \in Procs : SyncStamp(p)

SpecRace == InitRace /\ [][NextRace]_vars

----------------------------------------------------------------------------
(* The run command over the registry and the cached script files *)

\* a record without gist_id, as a mapping file edited by hand may hold
NoGist == "created_at" :> isoformat(1)

RunFiles ==
    {Store("a" :> OldA, None), Store(("a" :> OldA) @@ ("b" :> NoGist), None)}

InitRun ==
    /\ file \in RunFiles
    /\ run = NoRun
    /\ idFile = NoFile
    /\ gist_id = None
    /\ blobs = [m \in MirrorIds |-> AbsentBlob]
    /\ now = 1
    /\ log = <<>>
    /\ pc = "ready"
    /\ githubOk = FALSE
    /\ last = NoOp
    /\ expected = EmptyDict
    /\ removed = {}
    /\ disk = NoDisk
    /\ io = IdleIo
    /\ race = NoRace
    /\ proc = NoProc
    /\ hdr = NoHdr
    /\ shared = NoShared

\* sm run SCRIPT_NAME [--refresh] [--dry-run]
RunScript(script_name, refresh, dry_run, downloadOk, execOk) ==
    /\ pc = "ready"
    /\ LET r == run_cli(World, run.cache, script_name, refresh, dry_run,
                        downloadOk, execOk)
       IN run' = [cache |-> r.cache, refresh |-> refresh, dry_run |-> dry_run,
                  downloadOk |-> downloadOk, execOk |-> execOk,
                  fetched |-> r.fetched, executed |-> r.executed,
                  exit |-> r.exit]
    /\ last' = [NoOp EXCEPT !.op = "run", !.name = script_name]
    /\ log' = <<>>
    /\ UNCHANGED <<file, idFile, gist_id, blobs, now, pc, githubOk, expected,
                   removed, disk, io, race, proc, hdr, shared>>

\* the registry changes between runs: adds and removes whose push fails
NextRun ==
    \/ \E n \in Names, refresh \in BOOLEAN, dry_run \in BOOLEAN,
          downloadOk \in BOOLEAN, execOk \in BOOLEAN :
          RunScript(n, refresh, dry_run, downloadOk, execOk)
    \/ \E n \in Names : AddScript(n, "s2", EmptyDict, FALSE)
    \/ \E n \in Names : RemoveScript(n, FALSE)

SpecRun == InitRun /\ [][NextRun]_vars

----------------------------------------------------------------------------
(* One process: the CLI group and the commands' get_mapping_manager calls *)

\* sm(): setup_mapping is called and its manager is dropped; an Exception is
\* logged, a KeyboardInterrupt ends the process
SmGroup(discOk, found, choice, pullOk, pushOk) ==
    /\ pc = "start"
    /\ HasFreshId(World)
    /\ found # None => blobs[found].kind # "absent"
    /\ LET r == setup_mapping(World, discOk, found, choice, pullOk, pushOk) IN
       /\ r.w.now <= MaxTime
       /\ file' = r.w.file
       /\ idFile' = r.w.idFile
       /\ gist_id' = r.w.gist_id
       /\ blobs' = r.w.blobs
       /\ now' = r.w.now
       /\ log' = r.w.log
       /\ pc' = IF r.raised = "none" THEN "ready" ELSE "exited"
       /\ githubOk' = r.ok
       /\ last' = [NoOp EXCEPT !.op = "group", !.ret = r.ok, !.raised = r.raised,
                               !.id = found, !.name = choice, !.gid = idFile]
       /\ proc' = [proc EXCEPT !.bootstraps = @ + 1]
    /\ UNCHANGED <<expected, removed, disk, io, race, run, hdr, shared>>

\* get_mapping_manager(), called by a command: with no instance yet it calls
\* setup_mapping and keeps the manager that it returns
GetMappingManager(discOk, found, choice, pullOk, pushOk) ==
    /\ pc = "ready"
    /\ IF proc._mapping_manager_instance = None
       THEN /\ HasFreshId(World)
            /\ found # None => blobs[found].kind # "absent"
            /\ LET r == setup_mapping(World, discOk, found, choice, pullOk, pushOk)
                   k == proc.bootstraps + 1
               IN
               /\ r.w.now <= MaxTime
               /\ file' = r.w.file
               /\ idFile' = r.w.idFile
               /\ gist_id' = r.w.gist_id
               /\ blobs' = r.w.blobs
               /\ now' = r.w.now
               /\ log' = r.w.log
               /\ pc' = IF r.raised = "none" THEN "ready" ELSE "exited"
               /\ githubOk' = r.ok
               /\ last' = [NoOp EXCEPT !.op = "get_mapping_manager",
                                       !.ret = r.ok, !.raised = r.raised,
                                       !.id = found, !.name = choice,
                                       !.gid = idFile]
               /\ proc' = IF r.raised = "none"
                          THEN [_mapping_manager_instance |-> ManagerOf(k),
                                bootstraps |-> k,
                                returned |-> proc.returned \cup {ManagerOf(k)}]
                          ELSE [proc EXCEPT !.bootstraps = k]
       ELSE /\ discOk /\ found = None /\ choice = "y" /\ pullOk /\ pushOk
            /\ proc' = [proc EXCEPT !.returned =
                           @ \cup {proc._mapping_manager_instance}]
            /\ last' = [NoOp EXCEPT !.op = "get_mapping_manager"]
            /\ log' = <<>>
            /\ UNCHANGED <<file, idFile, gist_id, blobs, now, pc, githubOk>>
    /\ UNCHANGED <<expected, removed, disk, io, race, run, hdr, shared>>

\* the process ends and another one starts: the module is loaded anew
NewProcess ==
    /\ pc # "start"
    /\ pc' = "start"
    /\ gist_id' = None
    /\ githubOk' = FALSE
    /\ last' = NoOp
    /\ log' = <<>>
    /\ proc' = NoProc
    /\ UNCHANGED <<file, idFile, blobs, now, expected, removed, disk, io, race,
                   run, hdr, shared>>

NextBoot ==
    \/ \E discOk \in BOOLEAN, found \in MirrorIds \cup {None}, choice \in Choices,
          pullOk \in BOOLEAN, pushOk \in BOOLEAN :
          SmGroup(discOk, found, choice, pullOk, pushOk)
    \/ \E discOk \in BOOLEAN, found \in MirrorIds \cup {None}, choice \in Choices,
          pullOk \in BOOLEAN, pushOk \in BOOLEAN :
          GetMappingManager(discOk, found, choice, pullOk, pushOk)
    \/ NewProcess

SpecBoot == Init /\ [][NextBoot]_vars

----------------------------------------------------------------------------
(* The mapping file under pulls of a gist that holds no mapping *)

ShapeFiles == {MissingFile, EmptyStore, Store("a" :> OldA, None)}

InitShape ==
    /\ file \in ShapeFiles
    /\ idFile \in {NoFile, MirrorSeq[1]}
    /\ \E b \in {ShapelessBlob, Store("b" :> OldB, None)} :
          blobs = [m \in MirrorIds |-> IF m = MirrorSeq[1] THEN b ELSE AbsentBlob]
    /\ gist_id = None
    /\ now = 1
    /\ log = <<>>
    /\ pc = "start"
    /\ githubOk = FALSE
    /\ last = NoOp
    /\ expected = EmptyDict
    /\ removed = {}
    /\ disk = NoDisk
    /\ io = IdleIo
    /\ race = NoRace
    /\ run = NoRun
    /\ proc = NoProc
    /\ hdr = NoHdr
    /\ shared = NoShared

NextShape ==
    \/ \E found \in MirrorIds \cup {None}, choice \in {"y", "n"} :
          Setup(TRUE, found, choice, TRUE, TRUE)
    \/ \E n \in Names, pushOk \in BOOLEAN : AddScript(n, "s1", EmptyDict, pushOk)
    \/ \E n \in Names, pushOk \in BOOLEAN : RemoveScript(n, pushOk)
    \/ \E pushOk \in BOOLEAN : SyncMapping(pushOk)
    \/ \E pullOk \in BOOLEAN : SyncFromRemote(pullOk)
    \/ Restart

SpecShape == InitShape /\ [][NextShape]_vars

----------------------------------------------------------------------------
(* pydantic_ai_integration.py: the tags of the PEP 723 header.
   A text is a sequence of characters; a fixed piece of the header that holds
   none of the characters the extraction looks at is one element. *)

MaxTags == 2
MaxTagLen == 2

Quotes == {"\"", "'"}
TagChars == {"a", "b", "'", "]"}

SeqsUpTo(S, n) == UNION {[1..k -> S] : k \in 1..n}
TagsIn == SeqsUpTo(SeqsUpTo(TagChars, MaxTagLen), MaxTags)

default_tags == << <<"generated">>, <<"script-magic">> >>

RECURSIVE Join(_, _)
\* ", ".join(parts) for i..Len(parts)
Join(parts, i) ==
    IF i > Len(parts) THEN <<>>
    ELSE IF i = Len(parts) THEN parts[i]
    ELSE parts[i] \o <<",", " ">> \o Join(parts, i + 1)

\* f'"{tag}"'
Quoted(tag) == <<"\"">> \o tag \o <<"\"">>

HeaderHead ==
    <<"# /// script\n# description = \"d\"\n# authors = [\"Script-Magic AI Generator\"]\n# date = \"2026-11-06\"\n# requires-python = \">=3.9\"\n# dependencies = []\n">>

HeaderTail == <<"\n", "# ///\n\n# Generated from the prompt: \"p\"\n\n">>

\* add_metadata_if_missing(code, prompt, description, tags) for code without
\* a "# /// script" block
add_metadata_if_missing(code, tags) ==
    LET used == IF tags = <<>> THEN default_tags ELSE tags
        tags_str == Join([i \in 1..Len(used) |-> Quoted(used[i])], 1)
    IN HeaderHead \o <<"# tags = [">> \o tags_str \o <<"]">> \o HeaderTail
       \o code

\* str.strip() of white space
RECURSIVE Strip(_)
Strip(s) ==
    IF s = <<>> THEN s
    ELSE IF s[1] \in {" ", "\n"} THEN Strip(Tail(s))
    ELSE IF s[Len(s)] \in {" ", "\n"} THEN Strip(SubSeq(s, 1, Len(s) - 1))
    ELSE s

\* the end of the longest run of characters other than quotes from q
RECURSIVE RunEnd(_, _)
RunEnd(s, q) ==
    IF q + 1 <= Len(s) /\ s[q + 1] \notin Quotes THEN RunEnd(s, q + 1) ELSE q

\* re.findall(r'["\']([^"\']+)["\']', s), from position p
RECURSIVE FindAll(_, _)
FindAll(s, p) ==
    IF p > Len(s) THEN <<>>
    ELSE IF s[p] \in Quotes /\ p + 1 <= Len(s) /\ s[p + 1] \notin Quotes
    THEN LET r == RunEnd(s, p + 1)
         IN IF r + 1 <= Len(s)
            THEN <<SubSeq(s, p + 1, r)>> \o FindAll(s, r + 2)
            ELSE FindAll(s, p + 1)
    ELSE FindAll(s, p + 1)

\* s.split(','), from position p, with cur the piece being collected
RECURSIVE Split(_, _, _)
Split(s, p, cur) ==
    IF p > Len(s) THEN <<cur>>
    ELSE IF s[p] = "," THEN <<cur>> \o Split(s, p + 1, <<>>)
    ELSE Split(s, p + 1, Append(cur, s[p]))

RECURSIVE CleanTags(_, _)
CleanTags(pieces, i) ==
    IF i > Len(pieces) THEN <<>>
    ELSE LET clean_tag == Strip(pieces[i])
         IN IF clean_tag # <<>> /\ clean_tag[1] # "#"
            THEN <<clean_tag>> \o CleanTags(pieces, i + 1)
            ELSE CleanTags(pieces, i + 1)

\* the first position from p that holds x, 0 when there is none
RECURSIVE IndexFrom(_, _, _)
IndexFrom(s, x, p) ==
    IF p > Len(s) THEN 0
    ELSE IF s[p] = x THEN p
    ELSE IndexFrom(s, x, p + 1)

\* extract_metadata_tags(script)
extract_metadata_tags(script) ==
    LET i == IndexFrom(script, "# tags = [", 1)
        j == IF i = 0 THEN 0 ELSE IndexFrom(script, "]", i + 1)
    IN IF i = 0 \/ j = 0 THEN default_tags
       ELSE LET tags_str == Strip(SubSeq(script, i + 1, j - 1))
                quoted == FindAll(tags_str, 1)
                tags == IF quoted # <<>> THEN quoted
                        ELSE CleanTags(Split(tags_str, 1, <<>>), 1)
            IN IF tags # <<>> THEN tags ELSE default_tags

\* the code that the header is put on top of
CodeIn == {<<"print(1)\n">>}

InitTags ==
    /\ file = EmptyStore
    /\ idFile = NoFile
    /\ blobs = [m \in MirrorIds |-> AbsentBlob]
    /\ gist_id = None
    /\ now = 1
    /\ log = <<>>
    /\ pc = "start"
    /\ githubOk = FALSE
    /\ last = NoOp
    /\ expected = EmptyDict
    /\ removed = {}
    /\ disk = NoDisk
    /\ io = IdleIo
    /\ race = NoRace
    /\ run = NoRun
    /\ proc = NoProc
    /\ hdr \in {[NoHdr EXCEPT !.tags = t, !.script = c] : t \in TagsIn, c \in CodeIn}
    /\ shared = NoShared

TagsFrame ==
    UNCHANGED <<file, idFile, gist_id, blobs, now, log, pc, githubOk, last,
                expected, removed, disk, io, race, run, proc, shared>>

\* generate_script: the header is put on top of the generated code
AddMetadata ==
    /\ hdr.pc = "none"
    /\ hdr' = [hdr EXCEPT !.pc = "generated",
                          !.script = add_metadata_if_missing(@, hdr.tags)]
    /\ TagsFrame

\* the tags are read back from the script
ExtractTags ==
    /\ hdr.pc = "generated"
    /\ hdr' = [hdr EXCEPT !.pc = "extracted",
                          !.out = extract_metadata_tags(hdr.script)]
    /\ TagsFrame

NextTags == AddMetadata \/ ExtractTags

SpecTags == InitTags /\ [][NextTags]_vars

----------------------------------------------------------------------------
(* Bootstraps of successive invocations *)

\* the process ends, by itself or by the interrupt, and the next invocation
\* starts with the files it left; last keeps how the bootstrap before ended
NextInvocation ==
    /\ pc # "start"
    /\ last.op = "setup"
    /\ pc' = "start"
    /\ gist_id' = None
    /\ githubOk' = FALSE
    /\ last' = [last EXCEPT !.op = "ended"]
    /\ log' = <<>>
    /\ UNCHANGED <<file, idFile, blobs, now, expected, removed, disk, io, race,
                   run, proc, hdr, shared>>

NextConflict ==
    \/ \E discOk \in BOOLEAN, found \in MirrorIds \cup {None}, choice \in Choices,
          pullOk \in BOOLEAN, pushOk \in BOOLEAN :
          Setup(discOk, found, choice, pullOk, pushOk)
    \/ NextInvocation

SpecConflict == Init /\ [][NextConflict]_vars

----------------------------------------------------------------------------
(* Two invocations on one machine: every statement that reads or writes
   ~/.sm/mapping.json is a step of its own *)

InitShared ==
    /\ file \in {EmptyStore, Store("a" :> OldA, None)}
    /\ idFile = MirrorSeq[1]
    /\ gist_id = MirrorSeq[1]
    /\ blobs = [m \in MirrorIds |->
                   IF m = MirrorSeq[1] THEN EmptyStore ELSE AbsentBlob]
    /\ now = 1
    /\ log = <<>>
    /\ pc = "ready"
    /\ githubOk = TRUE
    /\ last = NoOp
    /\ expected = EmptyDict
    /\ removed = {}
    /\ disk = NoDisk
    /\ io = IdleIo
    /\ race = NoRace
    /\ run = NoRun
    /\ proc = NoProc
    /\ hdr = NoHdr
    /\ shared = NoShared

SharedFrame ==
    UNCHANGED <<idFile, gist_id, pc, githubOk, expected, removed, disk, io,
                race, run, proc, hdr>>

\* add_script: mapping_data = self._read_mapping(), and the entry is put in
AddRead(p, script_name, id) ==
    /\ shared.inv[p].pc = "idle"
    /\ now < MaxTime
    /\ now' = now + 1
    /\ shared' = [shared EXCEPT !.inv[p] =
          [pc |-> "add_read",
           mapping_data |-> [_read_mapping(World) EXCEPT !.scripts =
               SetKey(@, script_name,
                      script_entry(id, isoformat(now + 1), EmptyDict))],
           op |-> "add", name |-> script_name]]
    /\ last' = [NoOp EXCEPT !.op = "add_read", !.name = script_name]
    /\ log' = <<>>
    /\ UNCHANGED <<file, blobs>>
    /\ SharedFrame

\* add_script: self._write_mapping(mapping_data); sync_mapping comes next
AddWrite(p) ==
    /\ shared.inv[p].pc = "add_read"
    /\ file' = _write_mapping(World, shared.inv[p].mapping_data).file
    /\ shared' = [shared EXCEPT !.inv[p].pc = "sync"]
    /\ last' = [NoOp EXCEPT !.op = "add_write", !.name = shared.inv[p].name]
    /\ log' = <<>>
    /\ UNCHANGED <<blobs, now>>
    /\ SharedFrame

\* remove_script: mapping = self._read_mapping() and the test of the name
RemoveRead(p, script_name) ==
    /\ shared.inv[p].pc = "idle"
    /\ LET mapping == _read_mapping(World) IN
       shared' = [shared EXCEPT !.inv[p] =
          IF script_name \notin DOMAIN mapping.scripts THEN IdleInv
          ELSE [pc |-> "remove_read",
                mapping_data |-> [mapping EXCEPT !.scripts =
                                     DelKey(@, script_name)],
                op |-> "remove", name |-> script_name]]
    /\ last' = [NoOp EXCEPT !.op = "remove_read", !.name = script_name]
    /\ log' = <<>>
    /\ UNCHANGED <<file, blobs, now>>
    /\ SharedFrame

\* remove_script: self._write_mapping(mapping); sync_mapping comes next
RemoveWrite(p) ==
    /\ shared.inv[p].pc = "remove_read"
    /\ file' = _write_mapping(World, shared.inv[p].mapping_data).file
    /\ shared' = [shared EXCEPT !.inv[p].pc = "sync",
                                !.dropped = @ \cup {shared.inv[p].name}]
    /\ last' = [NoOp EXCEPT !.op = "remove_write", !.name = shared.inv[p].name]
    /\ log' = <<>>
    /\ UNCHANGED <<blobs, now>>
    /\ SharedFrame

\* sm sync: sync_mapping is the whole operation
SyncStart(p) ==
    /\ shared.inv[p].pc = "idle"
    /\ shared' = [shared EXCEPT !.inv[p] = [IdleInv EXCEPT !.pc = "sync",
                                                          !.op = "sync"]]
    /\ last' = [NoOp EXCEPT !.op = "sync_start"]
    /\ log' = <<>>
    /\ UNCHANGED <<file, blobs, now>>
    /\ SharedFrame

\* _sync_to_github: mapping_data = self._read_mapping()
SharedSyncRead(p) ==
    /\ shared.inv[p].pc = "sync"
    /\ shared' = [shared EXCEPT !.inv[p].pc = "sync_read",
                                !.inv[p].mapping_data = _read_mapping(World)]
    /\ last' = [NoOp EXCEPT !.op = "sync_read"]
    /\ log' = <<>>
    /\ UNCHANGED <<file, blobs, now>>
    /\ SharedFrame

\* the operation of p returns
Returned(p) ==
    [shared EXCEPT !.inv[p] = IdleInv,
                   !.added = IF shared.inv[p].op = "add"
                             THEN @ \cup {shared.inv[p].name} ELSE @]

\* _sync_to_github: sync_mapping_file(mapping_data, self.gist_id); when it
\* raises, sync_mapping returns False and the operation returns
SharedSyncPush(p, pushOk) ==
    /\ shared.inv[p].pc = "sync_read"
    /\ LET r == sync_mapping_file(World, shared.inv[p].mapping_data, gist_id,
                                  pushOk)
       IN /\ blobs' = r.w.blobs
          /\ shared' = IF r.raised THEN Returned(p)
                       ELSE [shared EXCEPT !.inv[p].pc = "pushed"]
    /\ last' = [NoOp EXCEPT !.op = "sync_push", !.ret = pushOk]
    /\ log' = <<>>
    /\ UNCHANGED <<file, now>>
    /\ SharedFrame

\* _sync_to_github: last_synced is set in mapping_data, which is written, and
\* the operation returns
SharedSyncStamp(p) ==
    /\ shared.inv[p].pc = "pushed"
    /\ now < MaxTime
    /\ now' = now + 1
    /\ file' = _write_mapping(World, [shared.inv[p].mapping_data EXCEPT
                                         !.last_synced = isoformat(now + 1)]).file
    /\ shared' = Returned(p)
    /\ last' = [NoOp EXCEPT !.op = "sync_stamp"]
    /\ log' = <<>>
    /\ UNCHANGED blobs
    /\ SharedFrame

NextShared ==
    \/ \E p \in Procs, n \in Names : AddRead(p, n, "s1")
    \/ \E p \in Procs : AddWrite(p)
    \/ \E p \in Procs, n \in Names : RemoveRead(p, n)
    \/ \E p \in Procs : RemoveWrite(p)
    \/ \E p \in Procs : SyncStart(p)
    \/ \E p \in Procs : SharedSyncRead(p)
    \/ \E p \in Procs, pushOk \in BOOLEAN : SharedSyncPush(p, pushOk)
    \/ \E p \in Procs : SharedSyncStamp(p)

SpecShared == InitShared /\ [][NextShared]_vars

----------------------------------------------------------------------------
(* Properties *)

\* the remote call `call` was made and failed / succeeded
CallFailed(l, call) == \E i \in 1..(Len(l) - 1) : l[i] = call /\ l[i + 1] = "fail"
CallOk(l, call) == \E i \in 1..(Len(l) - 1) : l[i] = call /\ l[i + 1] = "ok"
AnyCallFailed(l) == \E i \in 1..Len(l) : l[i] = "fail"
Made(l, event) == \E i \in 1..Len(l) : l[i] = event

\* position of the first `event` in l, Len(l) + 1 when there is none
FirstPos(l, event) ==
    LET at == {i \in 1..Len(l) : l[i] = event}
    IN IF at = {} THEN Len(l) + 1 ELSE CHOOSE i \in at : \A j \in at : i <= j

\* the scripts a read of the mapping file gives, before and after a step
Pre == _read_mapping(World).scripts
Post == _read_mapping(World').scripts

\* C1: bootstrap with a persisted gist id and no mapping file, the remote
\* reachable: when setup_mapping returns, the mapping file holds exactly the
\* content of the gist that the id names.
C1_BootstrapPullsMissingLocal ==
    [][(/\ pc = "start"
        /\ last'.op = "setup"
        /\ last'.raised = "none"
        /\ file.kind = "missing"
        /\ idFile # NoFile
        /\ blobs[idFile].kind = "store"
        /\ ~AnyCallFailed(log'))
       => file' = blobs[idFile]]_vars

\* C2: setup_mapping returns githubOk = TRUE only if every remote call it made
\* (discover, pull, push) succeeded.
C2_FailureDowngradesGithubOk ==
    (last.op = "setup" /\ last.raised = "none" /\ githubOk) => ~AnyCallFailed(log)

\* C3: add_script is create-or-replace: afterwards the name holds the record
\* made from this call's arguments, it is the only change to the set of names,
\* and every record under another name is as it was.
C3_AddIsCreateOrReplace ==
    [][last'.op = "add" =>
        LET n == last'.name
            entry == script_entry(last'.id, isoformat(now + 1), last'.meta)
        IN /\ file'.kind = "store"
           /\ DOMAIN Post = DOMAIN Pre \cup {n}
           /\ Post[n] = entry
           /\ lookup_script(World', n) = [found |-> TRUE, rec |-> entry]
           /\ \A o \in DOMAIN Pre \ {n} : Post[o] = Pre[o]]_vars

\* a second add_script of a name first added in this run with another gist id,
\* next to a record under another name
C3_Witness ==
    /\ last.op = "add"
    /\ last.name \in DOMAIN last.before
    /\ last.before[last.name]["gist_id"] # last.id
    /\ last.before[last.name]["created_at"] = isoformat(2)
    /\ file.scripts[last.name]["gist_id"] = last.id
    /\ Cardinality(DOMAIN file.scripts) = 2

RemoveReturnsAndFrame ==
    last'.op = "remove" =>
        LET n == last'.name IN
        /\ n \notin DOMAIN Pre => (~last'.ret /\ file' = file)
        /\ n \in DOMAIN Pre =>
              /\ last'.ret
              /\ n \notin DOMAIN Post
              /\ ~lookup_script(World', n).found
              /\ \A i \in 1..Len(list_scripts(World')) :
                    list_scripts(World')[i]["name"] # n
              /\ DOMAIN Post = DOMAIN Pre \ {n}
              /\ \A o \in DOMAIN Post : Post[o] = Pre[o]

\* C4 as stated: remove_script of a missing name returns False and changes
\* nothing; of a present name returns True, leaves the other records alone, and
\* the name stays out of every later lookup and listing until it is added again.
C4_RemovedStaysAbsentUntilReadded ==
    [][/\ RemoveReturnsAndFrame
       /\ \A n \in removed' : ~lookup_script(World', n).found]_vars

\* C4 amended: the same, but a removed (or any absent) name stays absent only
\* across steps that neither add it nor pull the mapping from the remote.
C4_RemoveSemantics ==
    [][/\ RemoveReturnsAndFrame
       /\ \A n \in Names :
             (/\ n \notin DOMAIN Pre
              /\ ~(last'.op = "add" /\ last'.name = n)
              /\ ~CallOk(log', "pull"))
             => (n \notin DOMAIN Post /\ ~lookup_script(World', n).found)]_vars

\* a present name was removed and another record is still there
C4_Witness ==
    /\ last.op = "remove"
    /\ last.ret
    /\ last.name \in DOMAIN last.before
    /\ last.name \notin DOMAIN file.scripts
    /\ DOMAIN file.scripts # {}

\* C5: when every push fails, every sync_mapping returns False, and
\* lookup_script and list_scripts return exactly the registry that the adds and
\* removes imply.
C5_SyncDegradation ==
    /\ last.op = "sync" => ~last.ret
    /\ pc = "ready" => _read_mapping(World).scripts = expected
    /\ last.op = "lookup" =>
          /\ last.found = (last.name \in DOMAIN expected)
          /\ last.found => last.rec = expected[last.name]
    /\ last.op = "list" =>
          /\ Len(last.list) = Cardinality(DOMAIN expected)
          /\ \A n \in DOMAIN expected :
                \E i \in 1..Len(last.list) :
                    last.list[i] = MergeDict("name" :> n, expected[n])

\* a listing after adds and a remove none of which reached the remote
C5_Witness ==
    /\ last.op = "list"
    /\ Len(last.list) = 1
    /\ last.list[1]["created_at"] = isoformat(3)
    /\ removed # {}
    /\ \A m \in MirrorIds : blobs[m].kind # "store"

\* C6: a sync_mapping whose push fails returns False, raises nothing, and
\* leaves the mapping file and the persisted gist id as they were.
C6_FailedPushChangesNothing ==
    [][(last'.op = "sync" /\ CallFailed(log', "push")) =>
        /\ ~last'.ret
        /\ last'.raised = "none"
        /\ file' = file
        /\ idFile' = idFile
        /\ gist_id' = gist_id]_vars

C6_Witness ==
    /\ last.op = "sync"
    /\ ~last.ret
    /\ CallFailed(log, "push")
    /\ file.kind = "store"
    /\ DOMAIN file.scripts # {}

\* C7: a sync_mapping whose push succeeds returns True, sets last_synced to
\* the time of the sync, leaves the scripts as they were, and, when the manager
\* had no gist id, persists the id of the gist just created.
C7_SuccessfulPush ==
    [][(last'.op = "sync" /\ CallOk(log', "push")) =>
        /\ last'.ret
        /\ file'.kind = "store"
        /\ now' = now + 1
        /\ file'.last_synced = isoformat(now')
        /\ Post = Pre
        /\ ~Truthy(gist_id) =>
              /\ idFile' \in MirrorIds
              /\ blobs[idFile'].kind = "absent"
              /\ blobs'[idFile'].kind = "store"
              /\ gist_id' = idFile'
        /\ Truthy(gist_id) => (idFile' = idFile /\ gist_id' = gist_id)]_vars

\* the first successful push of a manager that had no gist id
C7_Witness ==
    /\ last.op = "sync"
    /\ last.ret
    /\ last.gid = None
    /\ idFile \in MirrorIds
    /\ gist_id = idFile
    /\ DOMAIN file.scripts # {}

\* C8: _sync_from_github returns False, raises nothing and leaves the mapping
\* file as it was when the manager has no gist id or the pull fails.
C8_FailedPullChangesNothing ==
    [][(last'.op = "pull" /\ (~Truthy(gist_id) \/ CallFailed(log', "pull"))) =>
        /\ ~last'.ret
        /\ last'.raised = "none"
        /\ file' = file]_vars

\* the gist holds content that does not deserialize
C8_Witness ==
    /\ last.op = "pull"
    /\ ~last.ret
    /\ CallFailed(log, "pull")
    /\ Truthy(gist_id)
    /\ blobs[gist_id].kind = "corrupt"
    /\ DOMAIN file.scripts # {}

\* C9: a successful _sync_from_github replaces the mapping file by the pulled
\* content: no record that was only local survives.
C9_PullReplacesWholesale ==
    [][(last'.op = "pull" /\ last'.ret) =>
        /\ file' = blobs[gist_id]
        /\ blobs' = blobs]_vars

\* a record that existed only locally is gone after the pull
C9_Witness ==
    /\ last.op = "pull"
    /\ last.ret
    /\ \E n \in DOMAIN last.before : n \notin DOMAIN file.scripts
    /\ DOMAIN file.scripts # {}

\* C10: add_script and a remove_script of a present name write the mapping
\* file before the push is attempted; they raise nothing whatever the push
\* does, remove_script returns True, and the change is in the mapping file.
C10_WriteBeforePush ==
    [][(last'.op = "add" \/ (last'.op = "remove" /\ last'.name \in DOMAIN Pre)) =>
        /\ last'.raised = "none"
        /\ Made(log', "push")
        /\ FirstPos(log', "write") < FirstPos(log', "push")
        /\ last'.op = "add" =>
              /\ last'.name \in DOMAIN Post
              /\ Post[last'.name] =
                    script_entry(last'.id, isoformat(now + 1), last'.meta)
        /\ last'.op = "remove" => (last'.ret /\ last'.name \notin DOMAIN Post)
        /\ CallOk(log', "push") => blobs'[gist_id'].scripts = Post]_vars

\* the push after a removal failed, and the removal is on disk
C10_Witness ==
    /\ last.op = "remove"
    /\ last.ret
    /\ CallFailed(log, "push")
    /\ last.name \in DOMAIN last.before
    /\ last.name \notin DOMAIN file.scripts

\* number of times `event` is in l
Count(l, event) == Cardinality({i \in 1..Len(l) : l[i] = event})

\* C11: bootstrap with a mapping file and a gist id file both on disk:
\* setup_mapping returns githubOk = TRUE, makes no discover, pull or push, and
\* leaves the mapping file, the gist id file and the gists as they were.
C11_BootstrapTrustsLocal ==
    [][(/\ pc = "start"
        /\ last'.op = "setup"
        /\ file.kind # "missing"
        /\ idFile # NoFile)
       => /\ githubOk'
          /\ last'.raised = "none"
          /\ log' = <<>>
          /\ file' = file
          /\ idFile' = idFile
          /\ gist_id' = idFile
          /\ blobs' = blobs]_vars

\* a bootstrap that found both files, the mapping holding a record that the
\* gist does not
C11_Witness ==
    /\ last.op = "setup"
    /\ last.gid # NoFile
    /\ log = <<>>
    /\ githubOk
    /\ DOMAIN file.scripts # {}
    /\ blobs[idFile] # file

\* C12: bootstrap with no mapping file and no gist id file, discover finding
\* nothing and the remote reachable: afterwards exactly one new gist exists,
\* its id is in the gist id file, the mapping file exists and last_synced is
\* set.
C12_BootstrapFromNothing ==
    [][(/\ pc = "start"
        /\ last'.op = "setup"
        /\ file.kind = "missing"
        /\ idFile = NoFile
        /\ CallOk(log', "discover")
        /\ last'.id = None
        /\ ~AnyCallFailed(log'))
       => /\ Cardinality({m \in MirrorIds : blobs'[m] # blobs[m]}) = 1
          /\ idFile' \in MirrorIds
          /\ gist_id' = idFile'
          /\ blobs[idFile'].kind = "absent"
          /\ blobs'[idFile'].kind = "store"
          /\ file'.kind = "store"
          /\ file'.last_synced = isoformat(now')
          /\ now' = now + 1
          /\ githubOk']_vars

\* the first bootstrap of a new machine, another gist being in the account
C12_Witness ==
    /\ last.op = "setup"
    /\ last.gid = NoFile
    /\ last.id = None
    /\ log = <<"write", "discover", "ok", "push", "ok", "write">>
    /\ idFile \in MirrorIds
    /\ file = Store(EmptyDict, isoformat(2))
    /\ githubOk

ConflictSetup ==
    /\ pc = "start"
    /\ last'.op = "setup"
    /\ file.kind # "missing"
    /\ idFile = NoFile
    /\ CallOk(log', "discover")
    /\ last'.id # None

C14_UnreadableReadsAsEmpty ==
    [][file.kind # "store"
       => /\ io'.op = "read" => io'.read = EmptyStore /\ ~io'.raised
          /\ last'.op = "lookup" => ~last'.found
          /\ last'.op = "list" => last'.list = <<>>]_vars

\* C15: after a crash inside _write_mapping the file holds the complete
\* mapping it held before the write or the complete mapping being written.
C15_WriteIsAtomic ==
    io.status = "crashed" => file = io.prev \/ file = io.data

\* C16: a _read_mapping after a completed _write_mapping(mapping_data) returns
\* mapping_data, for mappings of 0, 1 and 2 scripts; a _read_mapping that
\* follows a _read_mapping returns the same mapping and neither changes the
\* file.
C16_RoundTrip ==
    [][/\ (io'.op = "read" /\ io'.status = "written")
          => io'.read = io'.data /\ ~io'.raised
       /\ (io'.op = "read" /\ io.op = "read")
          => io'.read = io.read /\ disk' = disk]_vars

\* a mapping of two scripts written over another mapping and read back
C16_Witness ==
    /\ io.op = "read"
    /\ io.status = "written"
    /\ Cardinality(DOMAIN io.data.scripts) = 2
    /\ io.data.last_synced # None
    /\ io.read = io.data
    /\ io.prev.kind = "store"
    /\ io.prev # io.data

\* the step is an add_script or a remove_script of name n
Touches(n) == last'.op \in {"add", "remove"} /\ last'.name = n

\* the record that lookup_script returns holds the keys of metadata with
\* their values, and beside them gist_id and created_at only
HoldsMetadata(rec, metadata) ==
    /\ DOMAIN rec = {"gist_id", "created_at"} \cup DOMAIN metadata
    /\ \A k \in DOMAIN metadata : rec[k] = metadata[k]

\* C17 as stated: after add_script(name, id, m) lookup_script(name) returns a
\* record with exactly the metadata m, and no later step that is not an add or
\* remove of that name (adds and removes of other names, pushes, pulls)
\* changes the record.
C17_MetadataStaysAcrossPulls ==
    [][/\ last'.op = "add" =>
            LET r == lookup_script(World', last'.name)
            IN r.found /\ HoldsMetadata(r.rec, last'.meta)
       /\ \A n \in DOMAIN Pre :
            ~Touches(n) => n \in DOMAIN Post /\ Post[n] = Pre[n]]_vars

\* C17 amended: the same, except that a successful pull replaces the record
\* by what the gist holds under the name.
C17_MetadataRoundTrips ==
    [][/\ last'.op = "add" =>
            LET r == lookup_script(World', last'.name)
            IN r.found /\ HoldsMetadata(r.rec, last'.meta)
       /\ \A n \in DOMAIN Pre :
            (~Touches(n) /\ ~CallOk(log', "pull"))
            => n \in DOMAIN Post /\ Post[n] = Pre[n]]_vars

\* b was added with a description, a was added after it, and the lookup of b
\* returns the description
C17_Witness ==
    /\ last.op = "lookup"
    /\ last.name = "b"
    /\ last.found
    /\ last.rec = script_entry("s1", isoformat(2), "description" :> "demo")
    /\ "a" \in DOMAIN file.scripts
    /\ file.scripts["a"]["created_at"] = isoformat(3)

\* the step is an add_script of name n
AddOf(n) == last'.op = "add" /\ last'.name = n

\* C18 as stated: no step changes the gist_id stored under a name (a name
\* cannot be removed and added again within one step).
C18_RemoteIdNeverChanges ==
    [][\A n \in DOMAIN Pre \cap DOMAIN Post :
          Post[n]["gist_id"] = Pre[n]["gist_id"]]_vars

\* C18 amended: no step changes the gist_id stored under a name, except an
\* add_script of that name (which replaces the record, removed before or not)
\* and a successful pull.
C18_RemoteIdChangesByAddOrPull ==
    [][\A n \in DOMAIN Pre \cap DOMAIN Post :
          (~AddOf(n) /\ ~CallOk(log', "pull"))
          => Post[n]["gist_id"] = Pre[n]["gist_id"]]_vars

\* a push that succeeded: b keeps the gist_id it was added with, in the file
\* and in the gist
C18_Witness ==
    /\ last.op = "sync"
    /\ last.ret
    /\ last.gid # None
    /\ "b" \in DOMAIN file.scripts
    /\ file.scripts["b"]["gist_id"] = "s1"
    /\ blobs[idFile].scripts = file.scripts

TimeOf(s) == CHOOSE t \in DOMAIN TimeStr : TimeStr[t] = s

\* C20: last_synced stays None while no push and no pull has succeeded, and
\* after every sync_mapping or _sync_from_github that returned True it is not
\* None and not older than it was.
C20_LastSyncedIdentifiesSync ==
    [][/\ (last'.op \in {"sync", "pull"} /\ last'.ret)
          => /\ file'.last_synced # None
             /\ file.last_synced # None
                => TimeOf(file'.last_synced) >= TimeOf(file.last_synced)
       /\ (/\ _read_mapping(World).last_synced = None
           /\ ~CallOk(log', "push")
           /\ ~CallOk(log', "pull"))
          => _read_mapping(World').last_synced = None]_vars

\* C21: get_script_info(name) returns None exactly when lookup_script(name)
\* does, and otherwise the record that lookup_script returns, with its name.
C21_InfoEquivalentToLookup ==
    [][last'.op = "info" =>
          LET l == lookup_script(World, last'.name)
          IN /\ last'.found = l.found
             /\ l.found => last'.rec = SetKey(l.rec, "name", last'.name)]_vars

\* C22: lookup_script and list_scripts raise nothing, make no remote call and
\* leave the mapping file, the gist id file, the manager's gist id and the
\* gists as they were; list_scripts returns one entry per stored script (none
\* for an empty mapping) and lookup_script returns None for a name that is
\* not stored and the stored record otherwise.
C22_ReadsArePureAndLocal ==
    [][last'.op \in {"lookup", "list"} =>
          /\ last'.raised = "none"
          /\ log' = <<>>
          /\ file' = file
          /\ idFile' = idFile
          /\ gist_id' = gist_id
          /\ blobs' = blobs
          /\ last'.op = "list" => Len(last'.list) = Cardinality(DOMAIN Pre)
          /\ (last'.op = "lookup" /\ last'.name \notin DOMAIN Pre)
             => ~last'.found
          /\ (last'.op = "lookup" /\ last'.name \in DOMAIN Pre)
             => last'.found /\ last'.rec = Pre[last'.name]]_vars

\* a lookup of b, which the gist holds and the mapping file does not
C22_Witness ==
    /\ last.op = "lookup"
    /\ last.name = "b"
    /\ ~last.found
    /\ DOMAIN file.scripts = {"a"}
    /\ gist_id \in MirrorIds
    /\ blobs[gist_id].kind = "store"
    /\ "b" \in DOMAIN blobs[gist_id].scripts

\* C23: an interrupt at the prompt of setup_mapping leaves the mapping as it
\* was (the file itself when there was one), makes neither pull nor push, and
\* the process exits with a status other than 0.
C23_InterruptAtPrompt ==
    [][(/\ pc = "start"
        /\ last'.op = "setup"
        /\ last'.name = "interrupt"
        /\ idFile = NoFile
        /\ CallOk(log', "discover")
        /\ last'.id # None)
       => /\ _read_mapping(World') = _read_mapping(World)
          /\ file.kind # "missing" => file' = file
          /\ blobs' = blobs
          /\ Count(log', "pull") + Count(log', "push") = 0
          /\ pc' = "exited"
          /\ ExitStatus(last'.raised) # 0]_vars

\* the prompt was interrupted over a mapping file that holds a script
C23_Witness ==
    /\ last.op = "setup"
    /\ last.name = "interrupt"
    /\ last.raised = "KeyboardInterrupt"
    /\ last.gid = NoFile
    /\ last.id \in MirrorIds
    /\ pc = "exited"
    /\ "a" \in DOMAIN file.scripts
    /\ blobs[last.id].scripts # file.scripts

\* C24: when both invocations have completed a sync_mapping that returned
\* True, the gist holds exactly the mapping sent by the push that completed
\* last.
C24_LastPushWins ==
    (\A p \in Procs : race.inv[p].ret)
    => /\ race.winner \in Procs
       /\ blobs[gist_id] = race.inv[race.winner].sent

\* both have synced; p2 pushed first, p1 last, and they sent different
\* mappings
C24_Witness ==
    /\ \A p \in Procs : race.inv[p].ret /\ race.inv[p].pc = "idle"
    /\ race.winner = "p1"
    /\ race.inv["p1"].sent # race.inv["p2"].sent
    /\ DOMAIN race.inv["p2"].sent.scripts # {}
    /\ blobs[gist_id] = race.inv["p1"].sent

\* the record under the name that the step's `sm run` was given
RunRecord == lookup_script(World, last'.name)

\* the record is there and has a gist id
RunLookupOk ==
    /\ RunRecord.found
    /\ "gist_id" \in DOMAIN RunRecord.rec
    /\ Truthy(RunRecord.rec["gist_id"])

\* the run has to download: refresh, or no cached file
RunNeedsDownload == run'.refresh \/ run.cache[last'.name] = NoFile

\* C25: `sm run` of a name that is not in the mapping, or whose record has no
\* gist id, or whose download fails while there is no cached file, exits with
\* a status other than 0 and executes nothing; a run whose lookup, download
\* and execution succeed exits with 0.
C25_RunExitStatus ==
    [][last'.op = "run" =>
          /\ (\/ ~RunLookupOk
              \/ run.cache[last'.name] = NoFile /\ ~run'.downloadOk)
             => run'.exit # 0 /\ ~run'.executed
          /\ (/\ RunLookupOk
              /\ RunNeedsDownload => run'.downloadOk
              /\ run'.execOk)
             => run'.exit = 0]_vars

\* a run of a stored script that was downloaded and executed, and a state
\* where the record of b has no gist id
C25_Witness ==
    /\ last.op = "run"
    /\ last.name = "a"
    /\ run.fetched = "s1"
    /\ run.executed
    /\ run.exit = 0
    /\ "b" \in DOMAIN file.scripts
    /\ "gist_id" \notin DOMAIN file.scripts["b"]

\* C26: a run whose lookup succeeds downloads from the record's gist id when
\* there is no cached file or refresh is asked for, and writes the cached file
\* when the download succeeds; with a cached file and no refresh it downloads
\* nothing and leaves the cached files alone.
C26_CacheFallback ==
    [][(last'.op = "run" /\ RunLookupOk) =>
          /\ RunNeedsDownload
             => /\ run'.fetched = RunRecord.rec["gist_id"]
                /\ run'.downloadOk
                   => run'.cache = [run.cache EXCEPT ![last'.name] =
                                       RunRecord.rec["gist_id"]]
                /\ ~run'.downloadOk => run'.cache = run.cache
          /\ ~RunNeedsDownload
             => run'.fetched = None /\ run'.cache = run.cache]_vars

\* a run with refresh that replaced the cached copy of a by the content of
\* the gist now recorded for a
C26_Witness ==
    /\ last.op = "run"
    /\ last.name = "a"
    /\ run.refresh
    /\ run.fetched = "s2"
    /\ run.cache["a"] = "s2"
    /\ file.scripts["a"]["gist_id"] = "s2"

\* C27: in one process setup_mapping runs at most once, the call of the CLI
\* group and those of get_mapping_manager counted together, and every
\* get_mapping_manager call returns the same manager.
C27_BootstrapOncePerProcess ==
    /\ proc.bootstraps <= 1
    /\ Cardinality(proc.returned) <= 1

\* C28: once the manager holds a gist id, no add_script, remove_script,
\* sync_mapping or _sync_from_github call, succeeding or failing, changes the
\* id in memory or in gist_id.txt or touches another gist, and a successful
\* push puts the mapping it read at that id.
C28_KnownRemoteIdIsKept ==
    [][(last'.op \in {"add", "remove", "sync", "pull"} /\ Truthy(gist_id)) =>
          /\ gist_id' = gist_id
          /\ idFile' = idFile
          /\ \A m \in MirrorIds \ {gist_id} : blobs'[m] = blobs[m]
          /\ CallOk(log', "push")
             => blobs'[gist_id] = [kind |-> "store", scripts |-> Post,
                                   last_synced |->
                                       _read_mapping(World).last_synced]]_vars

\* an add pushed by a manager that held its gist id before, while an unused
\* gist id was still there to be taken
C28_Witness ==
    /\ last.op = "add"
    /\ last.gid \in MirrorIds
    /\ CallOk(log, "push")
    /\ gist_id = last.gid
    /\ idFile = last.gid
    /\ blobs[gist_id].scripts = file.scripts
    /\ \E m \in MirrorIds : blobs[m].kind = "absent"

\* C29: right after a sync_mapping that returned True the gist holds what the
\* mapping file holds, scripts and last_synced alike.
C29_PushMakesRemoteEqualLocal ==
    [][(last'.op = "sync" /\ last'.ret) => blobs'[gist_id'] = file']_vars

\* C30: whatever the gist holds, once a manager has been constructed the
\* mapping file holds an object with "scripts" and "last_synced" after every
\* bootstrap, add_script, remove_script, sync_mapping and _sync_from_github,
\* and no add_script or remove_script raises.
C30_StoreOnDiskStaysValid ==
    [][/\ pc' # "start" => file'.kind = "store"
       /\ last'.op \in {"add", "remove"} => last'.raised = "none"]_vars

\* C31: the tags extracted from a script whose header was generated from a
\* non-empty list of tags are that list, in order.
C31_TagsRoundTrip ==
    (hdr.pc = "extracted" /\ hdr.tags # <<>>) => hdr.out = hdr.tags

\* C32: the record that add_script(script_name, gist_id, metadata) stores has
\* the gist_id that was passed and the time of the call as created_at,
\* whatever keys the metadata holds.
C32_MetadataCannotOverride ==
    [][last'.op = "add" =>
          /\ last'.name \in DOMAIN Post
          /\ Post[last'.name]["gist_id"] = last'.id
          /\ Post[last'.name]["created_at"] = isoformat(now + 1)]_vars

\* C33: list_scripts returns one entry for each key of the mapping, the name
\* of each entry is its key, and get_script_info finds a record for every
\* name for which lookup_script does, whatever the stored metadata.
C33_ListNamesAreKeys ==
    [][/\ last'.op = "list" =>
            /\ Len(last'.list) = Cardinality(DOMAIN Pre)
            /\ {last'.list[i]["name"] : i \in 1..Len(last'.list)} = DOMAIN Pre
       /\ (last'.op = "info" /\ lookup_script(World, last'.name).found)
          => last'.found]_vars

\* C34: when the bootstrap found a gist while a mapping file was there and
\* was interrupted at the prompt, the bootstrap of the next invocation does
\* not end ready with githubOk true unless it ran a pull or a push.
C34_ConflictNotSkipped ==
    [][(/\ pc = "start"
        /\ last.op = "ended"
        /\ last.name = "interrupt"
        /\ last.raised = "KeyboardInterrupt"
        /\ last'.op = "setup"
        /\ pc' = "ready"
        /\ githubOk')
       => Count(log', "pull") + Count(log', "push") > 0]_vars

\* C35: a run without refresh that uses the cached file of a name uses
\* content that was downloaded from the gist id now recorded for that name.
C35_CacheMatchesRegistry ==
    [][(last'.op = "run" /\ RunLookupOk /\ ~RunNeedsDownload)
       => run.cache[last'.name] = RunRecord.rec["gist_id"]]_vars

\* C36: whatever the interleaving of two invocations, every name whose
\* add_script has returned is in the mapping file, unless a remove_script
\* has deleted it.
C36_NoLostUpdate ==
    \A n \in shared.added \ shared.dropped : n \in DOMAIN file.scripts
====
